---- MODULE Spec2Model ----
(***************************************************************************)
(* Conversational-intake pipeline of KloudyKareApp: the MCP content-policy *)
(* classifier and its two callers (POST /process, POST /api/chat/message), *)
(* the SMS pipeline (processSMSMessage) and the profile store behind       *)
(* ProfileService.                                                         *)
(*                                                                         *)
(* Text is modelled by TLA+ strings; a character is a string of length 1   *)
(* (SubSeq(s, i, i)).                                                      *)
(***************************************************************************)
EXTENDS Integers, Sequences, FiniteSets, TLC

VARIABLES
    policy,             \* mcpPolicy, loaded once at process start
    message,            \* the message body of the request under classification
    classification,     \* result of the last classifyContent(message) call
    response,           \* last reply of POST /process
    chat,               \* last reply of POST /api/chat/message
    mcp_conversations,  \* rows of the MCP audit table (classification, response_action)
    db,                 \* the tables behind ProfileService and the profile routes
    last,               \* the request served last: its inputs and what it returned
    calls,              \* createOrUpdateProfileFromSMS calls in progress: arguments,
                        \* local variables and the statement each is about to run
    notifications       \* the in-memory array of routes/notifications.js

classifyVars == <<policy, message, classification, response, chat, mcp_conversations>>

vars ==
    <<policy, message, classification, response, chat, mcp_conversations, db, last, calls,
      notifications>>

-----------------------------------------------------------------------------
(* Bounds *)

\* longest message body enumerated for the classifier
MaxMsgLen == 3

\* number of requests served in one behaviour of the profile store
MaxOps == 2

\* number of createOrUpdateProfileFromSMS calls in progress at the same time
NumCalls == 2

-----------------------------------------------------------------------------
(* Text helpers: String.prototype.toLowerCase / includes *)

\* a message body that is missing or not a string
Undefined == "<undefined>"

UpperLetters == "ABCDEFGHIJKLMNOPQRSTUVWXYZ"
LowerLetters == "abcdefghijklmnopqrstuvwxyz"

CharAt(s, i) == SubSeq(s, i, i)

\* upper-case letter |-> its lower-case letter
LowerTable ==
    [c \in {CharAt(UpperLetters, i) : i \in 1..Len(UpperLetters)} |->
        CharAt(LowerLetters, CHOOSE i \in 1..Len(UpperLetters) : CharAt(UpperLetters, i) = c)]

LowerChar(c) == IF c \in DOMAIN LowerTable THEN LowerTable[c] ELSE c

RECURSIVE toLowerCase(_)
toLowerCase(s) ==
    IF Len(s) = 0 THEN ""
    ELSE LowerChar(CharAt(s, 1)) \o toLowerCase(SubSeq(s, 2, Len(s)))

\* s.includes(t): t occurs in s as a contiguous substring
includes(s, t) ==
    \E i \in 0..(Len(s) - Len(t)) : SubSeq(s, i + 1, i + Len(t)) = t

-----------------------------------------------------------------------------
(* Regular-expression helpers for the patterns of extractInformationFromSMS *)

CharsOf(s) == {CharAt(s, i) : i \in 1..Len(s)}

Digits == CharsOf("0123456789")
Letters == CharsOf(UpperLetters) \cup CharsOf(LowerLetters)
\* \s, as far as the message texts use it
WhiteSpace == {" ", "\t", "\n", "\r"}
\* \w
WordChars == Letters \cup Digits \cup {"_"}

\* the character at index i, "" outside the string
At(s, i) == IF i >= 1 /\ i <= Len(s) THEN CharAt(s, i) ELSE ""

\* \b between index i - 1 and index i
boundary(s, i) == (At(s, i - 1) \in WordChars) # (At(s, i) \in WordChars)

\* index of the last character of the longest run of `class' characters that
\* starts at index i (i - 1 when there is none): a greedy [class]*
RECURSIVE runEnd(_, _, _)
runEnd(s, i, class) ==
    IF At(s, i) \in class THEN runEnd(s, i + 1, class) ELSE i - 1

\* a literal of a case-insensitive pattern (given in lower case) matches at i
literalAt(s, i, lit) ==
    /\ i >= 1
    /\ i + Len(lit) - 1 <= Len(s)
    /\ toLowerCase(SubSeq(s, i, i + Len(lit) - 1)) = lit

Min(S) == CHOOSE x \in S : \A y \in S : x <= y
Max(S) == CHOOSE x \in S : \A y \in S : x >= y

\* String.prototype.trim
RECURSIVE trimStart(_)
trimStart(s) ==
    IF Len(s) > 0 /\ CharAt(s, 1) \in WhiteSpace THEN trimStart(SubSeq(s, 2, Len(s))) ELSE s

RECURSIVE trimEnd(_)
trimEnd(s) ==
    IF Len(s) > 0 /\ CharAt(s, Len(s)) \in WhiteSpace
    THEN trimEnd(SubSeq(s, 1, Len(s) - 1)) ELSE s

trim(s) == trimEnd(trimStart(s))

\* s.split(' '): the pieces between single blanks, empty pieces included
RECURSIVE split(_)
split(s) ==
    IF \E i \in 1..Len(s) : CharAt(s, i) = " "
    THEN LET i == Min({j \in 1..Len(s) : CharAt(s, j) = " "})
         IN  <<SubSeq(s, 1, i - 1)>> \o split(SubSeq(s, i + 1, Len(s)))
    ELSE <<s>>

\* parts.join(' ')
RECURSIVE join(_)
join(parts) ==
    IF Len(parts) = 0 THEN ""
    ELSE IF Len(parts) = 1 THEN parts[1]
    ELSE parts[1] \o " " \o join(Tail(parts))

\* parseInt of a run of decimal digits, as its canonical decimal text
RECURSIVE parseInt(_)
parseInt(d) ==
    IF Len(d) > 1 /\ CharAt(d, 1) = "0" THEN parseInt(SubSeq(d, 2, Len(d))) ELSE d

-----------------------------------------------------------------------------
(* extractInformationFromSMS: six independent pattern rules.  A fragment   *)
(* is a function from the keys that matched to their text.                 *)

NameChars == Letters \cup WhiteSpace
AlnumChars == Letters \cup Digits

\* /my name is ([a-zA-Z\s]+)/i, /i'm ([a-zA-Z\s]+)/i, /i am ([a-zA-Z\s]+)/i
namePatterns == <<"my name is ", "i'm ", "i am ">>

nameStarts(s, lit) ==
    {i \in 1..Len(s) : literalAt(s, i, lit) /\ At(s, i + Len(lit)) \in NameChars}

\* match[1] of the leftmost match of the pattern
nameCapture(s, lit) ==
    LET b == Min(nameStarts(s, lit)) + Len(lit)
    IN  SubSeq(s, b, runEnd(s, b, NameChars))

\* the whole captured name kept as the first name
nameFieldsWithoutSplit(s) ==
    LET hits == {k \in 1..Len(namePatterns) : nameStarts(s, namePatterns[k]) # {}} IN
    IF hits = {} THEN [k \in {} |-> ""]
    ELSE [k \in {"firstName"} |-> trim(nameCapture(s, namePatterns[Min(hits)]))]

\* the keys the first matching name pattern sets
nameFields(s) ==
    LET hits == {k \in 1..Len(namePatterns) : nameStarts(s, namePatterns[k]) # {}} IN
    IF hits = {} THEN [k \in {} |-> ""]
    ELSE LET fullName == trim(nameCapture(s, namePatterns[Min(hits)]))
             nameParts == split(fullName)
             n == Len(nameParts)
         IN  IF n >= 2
             THEN IF n > 2
                  THEN [k \in {"firstName", "lastName", "middleName"} |->
                          CASE k = "firstName"  -> nameParts[1]
                            [] k = "lastName"   -> nameParts[n]
                            [] k = "middleName" -> join(SubSeq(nameParts, 2, n - 1))]
                  ELSE [k \in {"firstName", "lastName"} |->
                          IF k = "firstName" THEN nameParts[1] ELSE nameParts[n]]
             ELSE [k \in {"firstName"} |-> fullName]

\* /\b(\d{5})\b/
zipStarts(s) ==
    {i \in 1..Len(s) :
        /\ boundary(s, i)
        /\ \A k \in 0..4 : At(s, i + k) \in Digits
        /\ boundary(s, i + 5)}

\* /\b(\d{3}[-.]?\d{3}[-.]?\d{4})\b/: the index after the match that starts
\* at i, 0 when there is none
phoneEnd(s, i) ==
    LET sep1 == IF At(s, i + 3) \in {"-", "."} THEN 1 ELSE 0
        j == i + 3 + sep1
        sep2 == IF At(s, j + 3) \in {"-", "."} THEN 1 ELSE 0
        k == j + 3 + sep2
    IN  IF /\ boundary(s, i)
           /\ \A d \in 0..2 : At(s, i + d) \in Digits
           /\ \A d \in 0..2 : At(s, j + d) \in Digits
           /\ \A d \in 0..3 : At(s, k + d) \in Digits
           /\ boundary(s, k + 4)
        THEN k + 4 ELSE 0

phoneStarts(s) == {i \in 1..Len(s) : phoneEnd(s, i) # 0}

\* phoneMatch[1].replace(/[-\.]/g, '')
RECURSIVE stripSeparators(_)
stripSeparators(s) ==
    IF Len(s) = 0 THEN ""
    ELSE (IF CharAt(s, 1) \in {"-", "."} THEN "" ELSE CharAt(s, 1))
            \o stripSeparators(SubSeq(s, 2, Len(s)))

\* the tail \s*:?\s*([a-zA-Z0-9]+) of the Medicaid pattern from index p:
\* <<first, last>> of the captured run, <<0, 0>> when it does not match
medicaidTail(s, p) ==
    LET q == runEnd(s, p, WhiteSpace) + 1
        r == runEnd(s, q + 1, WhiteSpace) + 1
    IN  IF At(s, q) = ":"
        THEN IF At(s, r) \in AlnumChars THEN <<r, runEnd(s, r, AlnumChars)>> ELSE <<0, 0>>
        ELSE IF At(s, q) \in AlnumChars THEN <<q, runEnd(s, q, AlnumChars)>> ELSE <<0, 0>>

\* /medicaid\s*(?:id|number)?\s*:?\s*([a-zA-Z0-9]+)/i at index i
medicaidAt(s, i) ==
    IF ~literalAt(s, i, "medicaid") THEN <<0, 0>>
    ELSE LET k == runEnd(s, i + 8, WhiteSpace) + 1 IN
         IF literalAt(s, k, "id") /\ medicaidTail(s, k + 2) # <<0, 0>>
            THEN medicaidTail(s, k + 2)
         ELSE IF literalAt(s, k, "number") /\ medicaidTail(s, k + 6) # <<0, 0>>
            THEN medicaidTail(s, k + 6)
         ELSE medicaidTail(s, k)

medicaidStarts(s) == {i \in 1..Len(s) : medicaidAt(s, i) # <<0, 0>>}

\* /\b(?:i am|i'm)\s*(\d{1,3})\s*(?:years old|yo)\b/i at index i:
\* <<first, last>> of the captured digits, <<0, 0>> when it does not match
ageAt(s, i) ==
    LET len == IF literalAt(s, i, "i am") THEN 4 ELSE IF literalAt(s, i, "i'm") THEN 3 ELSE 0
        j == runEnd(s, i + len, WhiteSpace) + 1
        e == runEnd(s, j, Digits)
        k == runEnd(s, e + 1, WhiteSpace) + 1
    IN  IF /\ len # 0
           /\ boundary(s, i)
           /\ e - j + 1 \in 1..3
           /\ \/ literalAt(s, k, "years old") /\ boundary(s, k + 9)
              \/ literalAt(s, k, "yo") /\ boundary(s, k + 2)
        THEN <<j, e>> ELSE <<0, 0>>

ageStarts(s) == {i \in 1..Len(s) : ageAt(s, i) # <<0, 0>>}

streetSuffixes == <<"street", "st", "avenue", "ave", "road", "rd", "drive", "dr",
                    "lane", "ln", "way", "blvd", "boulevard">>

\* the suffix alternatives that match at index p and end on a word boundary
suffixesAt(s, p) ==
    {a \in 1..Len(streetSuffixes) :
        literalAt(s, p, streetSuffixes[a]) /\ boundary(s, p + Len(streetSuffixes[a]))}

\* /\b(\d+\s+[a-zA-Z0-9\s]+(?:street|st|...|boulevard))\b/i at index i: the
\* index of the last character of the match, 0 when there is none.  The
\* greedy character class gives way from its longest run backwards.
addressEnd(s, i) ==
    LET dEnd == runEnd(s, i, Digits)
        wsEnd == runEnd(s, dEnd + 1, WhiteSpace)
        cEnd == runEnd(s, dEnd + 1, AlnumChars \cup WhiteSpace)
        lasts == {e \in (IF wsEnd >= dEnd + 2 THEN wsEnd ELSE wsEnd + 1)..cEnd :
                    suffixesAt(s, e + 1) # {}}
    IN  IF /\ boundary(s, i)
           /\ At(s, i) \in Digits
           /\ wsEnd >= dEnd + 1
           /\ lasts # {}
        THEN LET e == Max(lasts)
             IN  e + Len(streetSuffixes[Min(suffixesAt(s, e + 1))])
        ELSE 0

addressStarts(s) == {i \in 1..Len(s) : addressEnd(s, i) # 0}

\* the keys of the five rules after the name rule, each with its text
otherFields(s) ==
    LET keys == {k \in {"zipCode", "phoneNumber", "medicaidId", "age", "streetAddress"} :
                    CASE k = "zipCode"       -> zipStarts(s) # {}
                      [] k = "phoneNumber"   -> phoneStarts(s) # {}
                      [] k = "medicaidId"    -> medicaidStarts(s) # {}
                      [] k = "age"           -> ageStarts(s) # {}
                      [] k = "streetAddress" -> addressStarts(s) # {}}
    IN  [k \in keys |->
            CASE k = "zipCode" ->
                    SubSeq(s, Min(zipStarts(s)), Min(zipStarts(s)) + 4)
              [] k = "phoneNumber" ->
                    stripSeparators(SubSeq(s, Min(phoneStarts(s)),
                                           phoneEnd(s, Min(phoneStarts(s))) - 1))
              [] k = "medicaidId" ->
                    LET m == medicaidAt(s, Min(medicaidStarts(s))) IN SubSeq(s, m[1], m[2])
              [] k = "age" ->
                    LET m == ageAt(s, Min(ageStarts(s))) IN parseInt(SubSeq(s, m[1], m[2]))
              [] k = "streetAddress" ->
                    SubSeq(s, Min(addressStarts(s)), addressEnd(s, Min(addressStarts(s))))]

\* message.toLowerCase() / message.match of a message that is not a string
\* throws inside the try block and the catch returns {}
extractInformationFromSMS(m) ==
    IF m = Undefined THEN [k \in {} |-> ""]
    ELSE nameFields(m) @@ otherFields(m)

-----------------------------------------------------------------------------
(* Inputs of the classifier *)

ClassifyAlphabet == {"a", "b", "B"}

RECURSIVE StringsUpTo(_)
StringsUpTo(n) ==
    IF n = 0 THEN {""}
    ELSE LET shorter == StringsUpTo(n - 1)
         IN  shorter \cup {s \o c : s \in shorter, c \in ClassifyAlphabet}

Messages == StringsUpTo(MaxMsgLen)

\* phrases a policy file may list; "bB" is folded by keyword.toLowerCase()
Keywords == {"a", "bB"}

TierNames == {"emergency_handling", "strict_blocks", "soft_blocks", "allowed_domains"}

\* policy.yaml parsed: the four phrase lists classifyContent reads.  `missing'
\* names the lists the file does not define (reading them yields undefined).
WellFormedPolicies ==
    [ emergency_keywords : SUBSET Keywords,
      strict_blocks      : SUBSET Keywords,
      soft_blocks        : SUBSET Keywords,
      allowed_domains    : [ primary_services : SUBSET {"a"},
                             administrative   : SUBSET {"bB"},
                             informational    : {{}} ],
      missing            : {{}} ]

-----------------------------------------------------------------------------
(* classifyContent *)

Outcome(c, a, p) == [category |-> c, action |-> a, priority |-> p]

\* an exception thrown out of classifyContent (TypeError on undefined)
TypeError == Outcome("TypeError", "TypeError", "TypeError")

NoResult == Outcome("none", "none", "none")

some(list, lowerMessage) ==
    \E keyword \in list : includes(lowerMessage, toLowerCase(keyword))

allowedDomainsOf(p) ==
    p.allowed_domains.primary_services
        \cup p.allowed_domains.administrative
        \cup p.allowed_domains.informational

classifyContentStrictFirst(p, m) ==
    IF m = Undefined THEN TypeError
    ELSE LET lowerMessage == toLowerCase(m) IN
         IF some(p.strict_blocks, lowerMessage)
            THEN Outcome("blocked", "strict_block", "high")
         ELSE IF some(p.emergency_keywords, lowerMessage)
            THEN Outcome("emergency", "immediate_redirect", "critical")
         ELSE IF some(p.soft_blocks, lowerMessage)
            THEN Outcome("soft_block", "brief_redirect", "medium")
         ELSE IF some(allowedDomainsOf(p), lowerMessage)
            THEN Outcome("allowed", "process", "low")
         ELSE Outcome("unknown", "brief_redirect", "low")

classifyContentAllowedFirst(p, m) ==
    IF m = Undefined THEN TypeError
    ELSE LET lowerMessage == toLowerCase(m) IN
         IF some(p.emergency_keywords, lowerMessage)
            THEN Outcome("emergency", "immediate_redirect", "critical")
         ELSE IF some(p.strict_blocks, lowerMessage)
            THEN Outcome("blocked", "strict_block", "high")
         ELSE IF some(allowedDomainsOf(p), lowerMessage)
            THEN Outcome("allowed", "process", "low")
         ELSE IF some(p.soft_blocks, lowerMessage)
            THEN Outcome("soft_block", "brief_redirect", "medium")
         ELSE Outcome("unknown", "brief_redirect", "low")

classifyContent(p, m) ==
    IF m = Undefined THEN TypeError
    ELSE LET lowerMessage == toLowerCase(m) IN
         IF "emergency_handling" \in p.missing THEN TypeError
         ELSE IF some(p.emergency_keywords, lowerMessage)
            THEN Outcome("emergency", "immediate_redirect", "critical")
         ELSE IF "strict_blocks" \in p.missing THEN TypeError
         ELSE IF some(p.strict_blocks, lowerMessage)
            THEN Outcome("blocked", "strict_block", "high")
         ELSE IF "soft_blocks" \in p.missing THEN TypeError
         ELSE IF some(p.soft_blocks, lowerMessage)
            THEN Outcome("soft_block", "brief_redirect", "medium")
         ELSE IF "allowed_domains" \in p.missing THEN TypeError
         ELSE IF some(allowedDomainsOf(p), lowerMessage)
            THEN Outcome("allowed", "process", "low")
         ELSE Outcome("unknown", "brief_redirect", "low")

-----------------------------------------------------------------------------
(* POST /process (MCP service) *)

NoResponse == [status |-> 0, action |-> "none", message |-> "none",
               escalate |-> FALSE, priority |-> "none"]

Reply(st, a, msg, esc, pr) ==
    [status |-> st, action |-> a, message |-> msg, escalate |-> esc, priority |-> pr]

EmergencyResponse == "emergency_handling.response"
ProcessStrictBlockText == "process: I can't provide that type of information"
ProcessBriefRedirectText == "process: I focus on helping with United Family Caregivers services"
ProcessDefaultText == "process: I'm not sure how to help with that"

\* the switch on classification.action
processSwitch(c) ==
    CASE c.action = "immediate_redirect" ->
            Reply(200, "redirect", EmergencyResponse, TRUE, "critical")
      [] c.action = "strict_block" ->
            Reply(200, "block", ProcessStrictBlockText, FALSE, "high")
      [] c.action = "brief_redirect" ->
            Reply(200, "redirect", ProcessBriefRedirectText, FALSE, "medium")
      [] c.action = "process" ->
            Reply(200, "process", "undefined", FALSE, "undefined")
      [] OTHER ->
            Reply(200, "redirect", ProcessDefaultText, FALSE, "low")

\* the reply of the handler and the classification it computed on the way
processReply(p, m) ==
    IF m = Undefined \/ m = "" THEN Reply(400, "none", "INVALID_INPUT", FALSE, "none")
    ELSE IF classifyContent(p, m) = TypeError
         THEN Reply(500, "none", "PROCESSING_ERROR", FALSE, "none")
         ELSE processSwitch(classifyContent(p, m))

\* the row logInteraction inserts for a handled request
conversationRow(p, m) ==
    [classification |-> classifyContent(p, m), response_action |-> processReply(p, m).action]

ProcessRequest ==
    /\ response' = processReply(policy, message)
    /\ classification' = IF message = Undefined \/ message = ""
                         THEN classification
                         ELSE classifyContent(policy, message)
    /\ IF processReply(policy, message).status = 200
       THEN \/ mcp_conversations' = mcp_conversations \cup {conversationRow(policy, message)}
            \/ UNCHANGED mcp_conversations      \* the insert failed; logInteraction swallows it
       ELSE UNCHANGED mcp_conversations
    /\ UNCHANGED <<policy, message, chat, db, last, calls, notifications>>

-----------------------------------------------------------------------------
(* POST /api/chat/message (MCP hub) *)

NoPrompt == "<no generation call>"

NoChat == [status |-> 0, content |-> "none", prompt |-> NoPrompt]

ChatStrictBlockText == "chat: I can't provide that type of information"
ChatErrorText == "chat: I'm having trouble processing your message"
OllamaText == "ollama: response.data.response"
OllamaFallbackText == "ollama: I'm having trouble connecting to our AI brain"

processThroughMCP(p, m) ==
    LET c == classifyContent(p, m) IN
    CASE c.action = "immediate_redirect" -> [action |-> "redirect", message |-> EmergencyResponse]
      [] c.action = "strict_block"       -> [action |-> "block", message |-> ChatStrictBlockText]
      [] OTHER                           -> [action |-> "process", message |-> "undefined"]

ChatMessage ==
    /\ classification' = classifyContent(policy, message)
    /\ IF classifyContent(policy, message) = TypeError
       THEN chat' = [status |-> 500, content |-> ChatErrorText, prompt |-> NoPrompt]
       ELSE LET mcpResult == processThroughMCP(policy, message) IN
            IF mcpResult.action \in {"block", "redirect"}
            THEN chat' = [status |-> 200, content |-> mcpResult.message, prompt |-> NoPrompt]
            ELSE \E generated \in {OllamaText, OllamaFallbackText} :
                    chat' = [status |-> 200, content |-> generated, prompt |-> message]
    /\ UNCHANGED <<policy, message, response, mcp_conversations, db, last, calls,
                   notifications>>

-----------------------------------------------------------------------------
(* Specification of the classifier and its two HTTP callers: one policy,  *)
(* one message, any number of requests carrying it.                        *)

InitClassify ==
    /\ policy \in WellFormedPolicies
    /\ message \in Messages \cup {Undefined}
    /\ classification = NoResult
    /\ response = NoResponse
    /\ chat = NoChat
    /\ mcp_conversations = {}
    /\ db = [ users |-> <<>>, user_profiles |-> <<>>, sms_profile_interactions |-> <<>>,
              profile_field_validations |-> <<>>, audit_log |-> <<>>, now |-> 0 ]
    /\ last = [op |-> "none"]
    /\ calls = <<>>
    /\ notifications = <<>>

NextClassify ==
    \/ ProcessRequest
    \/ ChatMessage

SpecClassify == InitClassify /\ [][NextClassify]_vars

-----------------------------------------------------------------------------
(* Claims on the classifier *)

EmergencyOutcome == Outcome("emergency", "immediate_redirect", "critical")

Classified == classification # NoResult /\ classification # TypeError

\* C1: whenever the lower-cased message contains a configured emergency
\* keyword, classifyContent returns (emergency, immediate_redirect, critical),
\* whatever strict-block, soft-block or allowed-domain phrases it also contains.
C1_EmergencyPrecedence ==
    (/\ Classified
     /\ \E keyword \in policy.emergency_keywords :
            includes(toLowerCase(message), keyword))
    => classification = EmergencyOutcome

\* an emergency message that also matches every lower tier has been classified
C1_Witness ==
    /\ Classified
    /\ \E keyword \in policy.emergency_keywords : includes(toLowerCase(message), keyword)
    /\ some(policy.strict_blocks, toLowerCase(message))
    /\ some(policy.soft_blocks, toLowerCase(message))
    /\ some(allowedDomainsOf(policy), toLowerCase(message))
    /\ classification = EmergencyOutcome

TierOrder == <<"emergency", "strict-block", "soft-block", "allowed-domain", "none">>

TierTable ==
    [t \in {"emergency", "strict-block", "soft-block", "allowed-domain", "none"} |->
        CASE t = "emergency"      -> Outcome("emergency", "immediate_redirect", "critical")
          [] t = "strict-block"   -> Outcome("blocked", "strict_block", "high")
          [] t = "soft-block"     -> Outcome("soft_block", "brief_redirect", "medium")
          [] t = "allowed-domain" -> Outcome("allowed", "process", "low")
          [] t = "none"           -> Outcome("unknown", "brief_redirect", "low")]

\* case-insensitive substring containment of some phrase of the tier
TierMatches(t, p, m) ==
    LET phrases == CASE t = "emergency"      -> p.emergency_keywords
                     [] t = "strict-block"   -> p.strict_blocks
                     [] t = "soft-block"     -> p.soft_blocks
                     [] t = "allowed-domain" -> allowedDomainsOf(p)
                     [] t = "none"           -> {""}
    IN  \E phrase \in phrases : includes(toLowerCase(m), toLowerCase(phrase))

FirstTier(p, m) ==
    TierOrder[CHOOSE i \in 1..Len(TierOrder) :
                /\ TierMatches(TierOrder[i], p, m)
                /\ \A j \in 1..(i - 1) : ~TierMatches(TierOrder[j], p, m)]

\* C2: the result is the fixed table's row for the first tier that matches,
\* in the order emergency, strict-block, soft-block, allowed-domain, none;
\* no other (category, action, priority) triple is ever returned.
C2_FirstTierWins ==
    Classified =>
        /\ classification = TierTable[FirstTier(policy, message)]
        /\ classification \in {TierTable[t] : t \in DOMAIN TierTable}

\* a message matching the soft-block and the allowed-domain tier (and no
\* higher one) has been classified soft_block
C2_Witness ==
    /\ Classified
    /\ ~TierMatches("emergency", policy, message)
    /\ ~TierMatches("strict-block", policy, message)
    /\ TierMatches("soft-block", policy, message)
    /\ TierMatches("allowed-domain", policy, message)
    /\ classification = TierTable["soft-block"]

\* C4 (as claimed): in the chat endpoint a brief_redirect message is answered
\* with a fixed policy response and never reaches the text-generation call.
C4_BriefRedirectNotGenerated ==
    (chat # NoChat /\ classification.action = "brief_redirect")
    => (chat.prompt = NoPrompt /\ chat.content \notin {OllamaText, OllamaFallbackText})

-----------------------------------------------------------------------------
(* The profile store: tables users, user_profiles, sms_profile_interactions,*)
(* profile_field_validations and audit_log.  A row's id is its index in the *)
(* table.  db.now is the value NOW() takes during the request being served.*)

NULL == "<null>"

\* fieldMapping of updateProfileData: fragment key |-> column
fieldMapping ==
    [ firstName |-> "first_name", lastName |-> "last_name", middleName |-> "middle_name",
      preferredName |-> "preferred_name", dateOfBirth |-> "date_of_birth", age |-> "age",
      gender |-> "gender", email |-> "email_address", streetAddress |-> "street_address",
      apartmentUnit |-> "apartment_unit", city |-> "city", state |-> "state",
      zipCode |-> "zip_code", county |-> "county", medicaidId |-> "medicaid_id",
      medicareId |-> "medicare_id", insuranceProvider |-> "insurance_provider",
      emergencyContact1Name |-> "emergency_contact_1_name",
      emergencyContact1Phone |-> "emergency_contact_1_phone",
      emergencyContact1Relationship |-> "emergency_contact_1_relationship",
      primaryCarePhysician |-> "primary_care_physician",
      medicalConditions |-> "medical_conditions", medications |-> "medications",
      allergies |-> "allergies", mobilityNeeds |-> "mobility_needs",
      dietaryRestrictions |-> "dietary_restrictions",
      preferredCaregiverGender |-> "preferred_caregiver_gender",
      languagePreference |-> "language_preference", serviceLocation |-> "service_location" ]

\* the data columns of user_profiles
DataColumns ==
    {fieldMapping[k] : k \in DOMAIN fieldMapping} \cup {"primary_phone", "secondary_phone"}

\* field lists of calculateCompletionPercentage
requiredFields == <<"first_name", "last_name", "primary_phone", "zip_code">>
importantFields == <<"date_of_birth", "street_address", "city", "state",
                     "emergency_contact_1_name", "emergency_contact_1_phone">>
optionalFields == <<"middle_name", "preferred_name", "email_address", "gender",
                    "secondary_phone", "apartment_unit", "county", "medicaid_id",
                    "medicare_id", "primary_care_physician">>

Range(seq) == {seq[i] : i \in 1..Len(seq)}

\* a row of user_profiles as INSERT leaves it: the columns not named take the
\* column defaults
NewProfileRow(id, userId, data, verification, createdVia) ==
    [ id |-> id,
      user_id |-> userId,
      data |-> [c \in DataColumns |-> IF c \in DOMAIN data THEN data[c] ELSE NULL],
      created_via |-> createdVia,
      sms_conversation_count |-> 0,
      profile_completion_percentage |-> 0,
      data_quality_score |-> 0,
      verification_status |-> verification,
      updated_at |-> 0,
      last_updated_via_sms |-> 0,
      last_interaction_date |-> 0 ]

EmptyDb ==
    [ users |-> <<>>,
      user_profiles |-> <<>>,
      sms_profile_interactions |-> <<>>,
      profile_field_validations |-> <<>>,
      audit_log |-> <<>>,
      now |-> 0 ]

\* the request being served starts: NOW() moves on
Tick(d) == [d EXCEPT !.now = @ + 1]

\* await of a query: its result is computed once and handed to the rest of
\* the function
Await(result, Continue(_)) == CHOOSE r \in {Continue(x) : x \in {result}} : TRUE

\* SELECT * FROM users WHERE phone = $1, rows[0] || null (0 stands for null)
findUserByPhone(d, phoneNumber) ==
    IF \E i \in 1..Len(d.users) : d.users[i].phone = phoneNumber
    THEN Min({i \in 1..Len(d.users) : d.users[i].phone = phoneNumber})
    ELSE 0

\* INSERT INTO users (id, phone, name, role)
createUser(d, phoneNumber) ==
    [d EXCEPT !.users = Append(@, [ id |-> Len(@) + 1, phone |-> phoneNumber,
                                    name |-> NULL, email |-> NULL, role |-> "client" ])]

\* SELECT * FROM user_profiles WHERE user_id = $1, rows[0] || null
findProfileByUserId(d, userId) ==
    IF \E i \in 1..Len(d.user_profiles) : d.user_profiles[i].user_id = userId
    THEN Min({i \in 1..Len(d.user_profiles) : d.user_profiles[i].user_id = userId})
    ELSE 0

\* INSERT INTO user_profiles (id, user_id, primary_phone, information_source, created_via)
createProfile(d, userId, phoneNumber) ==
    [d EXCEPT !.user_profiles =
        Append(@, NewProfileRow(Len(@) + 1, userId,
                                [c \in {"primary_phone"} |-> phoneNumber],
                                "unverified", "sms"))]

ProfileExists(d, profileId) == profileId \in 1..Len(d.user_profiles)

\* the keys of a fragment that updateProfileData writes
updatedKeys(extractedData) ==
    {key \in DOMAIN extractedData :
        key \in DOMAIN fieldMapping /\ extractedData[key] # NULL}

\* updateProfileData without the sms_conversation_count assignment
updateProfileDataNoCount(d, profileId, extractedData) ==
    LET keys == updatedKeys(extractedData) IN
    IF keys = {} \/ ~ProfileExists(d, profileId) THEN d
    ELSE [d EXCEPT !.user_profiles[profileId] =
            [@ EXCEPT
                !.data = [c \in DataColumns |->
                            IF \E key \in keys : fieldMapping[key] = c
                            THEN extractedData[CHOOSE key \in keys : fieldMapping[key] = c]
                            ELSE @[c]],
                !.updated_at = d.now,
                !.last_updated_via_sms = d.now]]

\* updateProfileData writing every column, the ones the fragment lacks as null
updateProfileDataReplaceAll(d, profileId, extractedData) ==
    LET keys == updatedKeys(extractedData) IN
    IF keys = {} \/ ~ProfileExists(d, profileId) THEN d
    ELSE [d EXCEPT !.user_profiles[profileId] =
            [@ EXCEPT
                !.data = [c \in DataColumns |->
                            IF \E key \in keys : fieldMapping[key] = c
                            THEN extractedData[CHOOSE key \in keys : fieldMapping[key] = c]
                            ELSE NULL],
                !.updated_at = d.now,
                !.last_updated_via_sms = d.now,
                !.sms_conversation_count = @ + 1]]

\* updateProfileData appending the new value to the stored one
updateProfileDataAppend(d, profileId, extractedData) ==
    LET keys == updatedKeys(extractedData) IN
    IF keys = {} \/ ~ProfileExists(d, profileId) THEN d
    ELSE [d EXCEPT !.user_profiles[profileId] =
            [@ EXCEPT
                !.data = [c \in DataColumns |->
                            IF \E key \in keys : fieldMapping[key] = c
                            THEN IF @[c] = NULL
                                 THEN extractedData[CHOOSE key \in keys : fieldMapping[key] = c]
                                 ELSE @[c] \o ", "
                                      \o extractedData[CHOOSE key \in keys : fieldMapping[key] = c]
                            ELSE @[c]],
                !.updated_at = d.now,
                !.last_updated_via_sms = d.now,
                !.sms_conversation_count = @ + 1]]

\* updateProfileData: one UPDATE ... SET <mapped columns>, updated_at = NOW(),
\* last_updated_via_sms = NOW(), sms_conversation_count = sms_conversation_count + 1;
\* nothing is written when no key of the fragment is mapped and non-null
updateProfileData(d, profileId, extractedData) ==
    LET keys == updatedKeys(extractedData) IN
    IF keys = {} \/ ~ProfileExists(d, profileId) THEN d
    ELSE [d EXCEPT !.user_profiles[profileId] =
            [@ EXCEPT
                !.data = [c \in DataColumns |->
                            IF \E key \in keys : fieldMapping[key] = c
                            THEN extractedData[CHOOSE key \in keys : fieldMapping[key] = c]
                            ELSE @[c]],
                !.updated_at = d.now,
                !.last_updated_via_sms = d.now,
                !.sms_conversation_count = @ + 1]]

\* INSERT INTO sms_profile_interactions
logSMSInteraction(d, userId, profileId, phoneNumber, messageContent, extractedData, stage) ==
    [d EXCEPT !.sms_profile_interactions =
        Append(@, [ user_id |-> userId, profile_id |-> profileId,
                    phone_number |-> phoneNumber, message_content |-> messageContent,
                    extracted_data |-> extractedData, conversation_stage |-> stage ])]

\* a field holding only white space counted as filled in
PresentUntrimmed(v) == v # NULL /\ v # ""

\* profile[field] && profile[field].toString().trim()
Present(v) == v # NULL /\ trim(v) # ""

\* Math.round(n / m * 100) for n, m >= 0, m > 0
RoundPercent(n, m) == (200 * n + m) \div (2 * m)

fieldScore(data, fields, weight) ==
    weight * Cardinality({i \in 1..Len(fields) : Present(data[fields[i]])})

\* the percentage calculateCompletionPercentage computes from a row's columns
completionOf(data) ==
    LET score == fieldScore(data, requiredFields, 40)
                    + fieldScore(data, importantFields, 30)
                    + fieldScore(data, optionalFields, 10)
        maxScore == 40 * Len(requiredFields) + 30 * Len(importantFields)
                    + 10 * Len(optionalFields)
    IN  IF maxScore > 0 THEN RoundPercent(score, maxScore) ELSE 0

\* calculateCompletionPercentage: the value returned ...
completionPercentage(d, profileId) ==
    IF ProfileExists(d, profileId) THEN completionOf(d.user_profiles[profileId].data) ELSE 0

\* UPDATE user_profiles SET profile_completion_percentage = $1 WHERE id = $2
storeCompletionPercentage(d, profileId, percentage) ==
    IF ProfileExists(d, profileId)
    THEN [d EXCEPT !.user_profiles[profileId].profile_completion_percentage = percentage]
    ELSE d

\* ... and the UPDATE that caches it
calculateCompletionPercentage(d, profileId) ==
    storeCompletionPercentage(d, profileId, completionPercentage(d, profileId))

\* the data quality score with a base score of 80
dataQualityScoreBaseEighty(d, profileId) ==
    LET rows == {i \in 1..Len(d.profile_field_validations) :
                    d.profile_field_validations[i].profile_id = profileId}
        valid == {i \in rows : d.profile_field_validations[i].validation_status = "valid"}
    IN  IF Cardinality(rows) > 0
        THEN RoundPercent(Cardinality(valid), Cardinality(rows))
        ELSE 80

\* the data quality score updateProfileMetrics derives from the validation log
dataQualityScore(d, profileId) ==
    LET rows == {i \in 1..Len(d.profile_field_validations) :
                    d.profile_field_validations[i].profile_id = profileId}
        valid == {i \in rows : d.profile_field_validations[i].validation_status = "valid"}
    IN  IF Cardinality(rows) > 0
        THEN RoundPercent(Cardinality(valid), Cardinality(rows))
        ELSE 50

\* the partial check made before the verified check
verificationStatusPartialFirst(completion, quality) ==
    IF completion >= 50 \/ quality >= 60 THEN "partial"
    ELSE IF completion >= 80 /\ quality >= 80 THEN "verified"
    ELSE "unverified"

verificationStatus(completion, quality) ==
    IF completion >= 80 /\ quality >= 80 THEN "verified"
    ELSE IF completion >= 50 \/ quality >= 60 THEN "partial"
    ELSE "unverified"

\* UPDATE user_profiles SET data_quality_score = $1, verification_status = $2,
\* last_interaction_date = NOW() WHERE id = $3
storeMetrics(d, profileId, quality, status) ==
    IF ProfileExists(d, profileId)
    THEN [d EXCEPT !.user_profiles[profileId] =
            [@ EXCEPT !.data_quality_score = quality,
                      !.verification_status = status,
                      !.last_interaction_date = d.now]]
    ELSE d

\* updateProfileMetrics
updateProfileMetrics(d, profileId) ==
    Await(calculateCompletionPercentage(d, profileId),
    LAMBDA d1 :
        storeMetrics(d1, profileId, dataQualityScore(d1, profileId),
                     verificationStatus(completionPercentage(d, profileId),
                                        dataQualityScore(d1, profileId))))

\* createOrUpdateProfileFromSMS, run without interference: the ids it works
\* on, the store it leaves and the value it returns
smsUserId(d, phoneNumber) ==
    IF findUserByPhone(d, phoneNumber) # 0 THEN findUserByPhone(d, phoneNumber)
    ELSE Len(d.users) + 1

smsProfileId(d, phoneNumber) ==
    IF findUserByPhone(d, phoneNumber) # 0
       /\ findProfileByUserId(d, findUserByPhone(d, phoneNumber)) # 0
    THEN findProfileByUserId(d, findUserByPhone(d, phoneNumber))
    ELSE Len(d.user_profiles) + 1

createOrUpdateProfileFromSMS(d, phoneNumber, extractedData, messageContent, stage) ==
    LET userId == smsUserId(d, phoneNumber)
        profileId == smsProfileId(d, phoneNumber)
    IN
    Await(IF findUserByPhone(d, phoneNumber) = 0 THEN createUser(d, phoneNumber) ELSE d,
    LAMBDA d1 :
    Await(IF findProfileByUserId(d1, userId) = 0
          THEN createProfile(d1, userId, phoneNumber) ELSE d1,
    LAMBDA d2 :
    Await(updateProfileData(d2, profileId, extractedData),
    LAMBDA d3 :
    Await(logSMSInteraction(d3, userId, profileId, phoneNumber, messageContent,
                            extractedData, stage),
    LAMBDA d4 :
    Await(updateProfileMetrics(d4, profileId),
    LAMBDA d5 :
    calculateCompletionPercentage(d5, profileId))))))

\* { user, profile: updatedProfile, completionPercentage }: updatedProfile is
\* the row updateProfileData returned, read before updateProfileMetrics ran
smsProfileResult(d, phoneNumber, extractedData) ==
    LET userId == smsUserId(d, phoneNumber)
        profileId == smsProfileId(d, phoneNumber)
    IN
    Await(IF findUserByPhone(d, phoneNumber) = 0 THEN createUser(d, phoneNumber) ELSE d,
    LAMBDA d1 :
    Await(IF findProfileByUserId(d1, userId) = 0
          THEN createProfile(d1, userId, phoneNumber) ELSE d1,
    LAMBDA d2 :
    Await(updateProfileData(d2, profileId, extractedData),
    LAMBDA d3 :
        [ user |-> userId,
          profile |-> d3.user_profiles[profileId],
          completionPercentage |-> completionPercentage(d3, profileId) ])))

-----------------------------------------------------------------------------
(* Missing fields, next questions, conversation stage, reply text *)

\* the list without the emergency contact phone
missingCandidatesWithoutContactPhone ==
    << [field |-> "first_name", label |-> "First Name"],
       [field |-> "last_name", label |-> "Last Name"],
       [field |-> "date_of_birth", label |-> "Date of Birth"],
       [field |-> "street_address", label |-> "Street Address"],
       [field |-> "city", label |-> "City"],
       [field |-> "state", label |-> "State"],
       [field |-> "zip_code", label |-> "ZIP Code"],
       [field |-> "emergency_contact_1_name", label |-> "Emergency Contact Name"] >>

missingCandidates ==
    << [field |-> "first_name", label |-> "First Name"],
       [field |-> "last_name", label |-> "Last Name"],
       [field |-> "date_of_birth", label |-> "Date of Birth"],
       [field |-> "street_address", label |-> "Street Address"],
       [field |-> "city", label |-> "City"],
       [field |-> "state", label |-> "State"],
       [field |-> "zip_code", label |-> "ZIP Code"],
       [field |-> "emergency_contact_1_name", label |-> "Emergency Contact Name"],
       [field |-> "emergency_contact_1_phone", label |-> "Emergency Contact Phone"] >>

\* getMissingProfileInfo: the candidates whose column is empty, in order
getMissingProfileInfo(d, profileId) ==
    IF ~ProfileExists(d, profileId) THEN <<>>
    ELSE SelectSeq(missingCandidates,
                   LAMBDA c : ~Present(d.user_profiles[profileId].data[c.field]))

isMissing(missing, f) == \E i \in 1..Len(missing) : missing[i].field = f

CompleteText == "Thank you! Your profile is complete. Is there anything you'd like to update?"
ThanksText == "Thank you for the information!"

\* generateNextQuestions
generateNextQuestions(d, profileId, conversationStage) ==
    LET missing == getMissingProfileInfo(d, profileId)
        questions ==
            CASE conversationStage = "intake" ->
                    IF isMissing(missing, "first_name") THEN <<"What's your first name?">>
                    ELSE IF isMissing(missing, "last_name") THEN <<"What's your last name?">>
                    ELSE IF isMissing(missing, "date_of_birth")
                         THEN <<"What's your date of birth? (MM/DD/YYYY)">>
                    ELSE <<>>
              [] conversationStage = "address" ->
                    IF isMissing(missing, "street_address") THEN <<"What's your street address?">>
                    ELSE IF isMissing(missing, "city") THEN <<"What city do you live in?">>
                    ELSE IF isMissing(missing, "zip_code") THEN <<"What's your ZIP code?">>
                    ELSE <<>>
              [] conversationStage = "emergency_contact" ->
                    IF isMissing(missing, "emergency_contact_1_name")
                    THEN <<"Who should we contact in case of emergency?">>
                    ELSE IF isMissing(missing, "emergency_contact_1_phone")
                         THEN <<"What's their phone number?">>
                    ELSE <<>>
              [] OTHER ->
                    <<"Could you provide your " \o toLowerCase(missing[1].label) \o "?">>
    IN  IF Len(missing) = 0 THEN <<CompleteText>>
        ELSE IF Len(questions) > 0 THEN questions ELSE <<ThanksText>>

\* extractedData.key is truthy
truthy(extractedData, key) ==
    key \in DOMAIN extractedData /\ extractedData[key] # NULL /\ extractedData[key] # ""

\* the rule on the name and Medicaid ID keys tried before the keyword rules
determineConversationStageIntakeFirst(m, extractedData) ==
    LET lowerMessage == toLowerCase(m) IN
    IF \/ truthy(extractedData, "firstName")
       \/ truthy(extractedData, "lastName")
       \/ truthy(extractedData, "medicaidId")
       THEN "intake"
    ELSE IF \/ includes(lowerMessage, "address")
            \/ truthy(extractedData, "streetAddress")
            \/ truthy(extractedData, "zipCode")
       THEN "address"
    ELSE IF includes(lowerMessage, "emergency") \/ includes(lowerMessage, "contact")
       THEN "emergency_contact"
    ELSE IF \/ includes(lowerMessage, "medical")
            \/ includes(lowerMessage, "condition")
            \/ includes(lowerMessage, "medication")
       THEN "medical"
    ELSE "general"

\* determineConversationStage
determineConversationStage(m, extractedData) ==
    LET lowerMessage == toLowerCase(m) IN
    IF \/ includes(lowerMessage, "address")
       \/ truthy(extractedData, "streetAddress")
       \/ truthy(extractedData, "zipCode")
       THEN "address"
    ELSE IF includes(lowerMessage, "emergency") \/ includes(lowerMessage, "contact")
       THEN "emergency_contact"
    ELSE IF \/ includes(lowerMessage, "medical")
            \/ includes(lowerMessage, "condition")
            \/ includes(lowerMessage, "medication")
       THEN "medical"
    ELSE IF \/ truthy(extractedData, "firstName")
            \/ truthy(extractedData, "lastName")
            \/ truthy(extractedData, "medicaidId")
       THEN "intake"
    ELSE "general"

FallbackGreeting == "Thank you for contacting United Family Caregivers. How can I help you today?"
PipelineErrorText ==
    "I'm sorry, I'm having trouble processing your message right now. Please try again or call 833.432.6488 for assistance."

\* generateAIResponse.  hasProfile, completion: profileResult and its
\* completionPercentage.  Below 50 the function asks a ProfileService built
\* on a null pool for the missing fields; that query throws and the catch
\* block returns the fallback greeting.
generateAIResponse(extractedData, hasProfile, completion) ==
    LET greeting ==
            "Thank you for contacting United Family Caregivers. "
            \o (IF truthy(extractedData, "firstName")
                THEN "Nice to meet you, " \o extractedData["firstName"] \o "! " ELSE "")
            \o (IF truthy(extractedData, "zipCode")
                THEN "I see you're in the " \o extractedData["zipCode"] \o " area. " ELSE "")
            \o (IF truthy(extractedData, "medicaidId")
                THEN "I have your Medicaid information. " ELSE "")
    IN  IF hasProfile /\ completion < 50 THEN FallbackGreeting
        ELSE IF hasProfile /\ completion >= 80
             THEN greeting \o "I have most of your information. Let me check your eligibility and get back to you shortly."
        ELSE greeting \o "How can I help you with our home care services today?"

-----------------------------------------------------------------------------
(* Inputs of the profile store's requests *)

Phones == {"+17025550101", "+17025550102"}

\* the policy the MCP service has loaded while SMS traffic is served
SmsPolicy ==
    [ emergency_keywords |-> {"911", "chest pain"},
      strict_blocks      |-> {"diagnose"},
      soft_blocks        |-> {"weather"},
      allowed_domains    |-> [ primary_services |-> {"home care"},
                               administrative   |-> {"eligibility"},
                               informational    |-> {} ],
      missing            |-> {} ]

\* inbound SMS bodies: processed with a name, an emergency with a name, a
\* processed ZIP, a processed phone number (no profile column), processed
\* without any field, out of scope, empty, a strict block with a name
SmsCorpus ==
    { "My name is Ann Lee, I need home care",
      "I'm Ann, chest pain call 911",
      "home care, zip 89101",
      "home care: call me at 702-555-0101",
      "do you offer home care",
      "hello",
      "",
      "can you diagnose me, my name is Bob" }

\* extractedData / updates bodies of the JSON routes
ApiFragments ==
    { [k \in {} |-> ""],
      [firstName |-> "Ann"],
      [lastName |-> "Lee"],
      [firstName |-> NULL, zipCode |-> "89101"],
      [firstName |-> " "],
      [phoneNumber |-> "7025550101"] }

\* bodies of POST /api/admin/users
AdminBodies ==
    { [name |-> "Ann Lee", email |-> "ann@example.org", phone |-> "+17025550101"],
      [name |-> "Bob", email |-> "bob@example.org", phone |-> NULL] }

\* the validation log the store starts with (no request of the service writes
\* it): none, or two valid rows out of three for the first profile
ValidationLogs ==
    { <<>>,
      << [profile_id |-> 1, validation_status |-> "valid"],
         [profile_id |-> 1, validation_status |-> "valid"],
         [profile_id |-> 1, validation_status |-> "needs_verification"] >> }

\* constant tables of the two text functions over the SMS corpus
ExtractedFromCorpus == [m \in SmsCorpus |-> extractInformationFromSMS(m)]
GuardrailReplies == [m \in SmsCorpus |-> processReply(SmsPolicy, m)]
GuardrailRows == [m \in SmsCorpus |-> conversationRow(SmsPolicy, m)]
StageOfCorpus == [m \in SmsCorpus |-> determineConversationStage(m, ExtractedFromCorpus[m])]

-----------------------------------------------------------------------------
(* processSMSMessage *)

\* checkMCPGuardrails with a catch block that blocks the message
checkMCPGuardrailsFailClosed(m, reachable) ==
    IF reachable /\ GuardrailReplies[m].status = 200
    THEN GuardrailReplies[m]
    ELSE Reply(0, "block", NULL, FALSE, "none")

\* checkMCPGuardrails: the reply of POST /process; any failure of the call
\* (unreachable, timeout, a 4xx or 5xx status) yields action 'process'
checkMCPGuardrails(m, reachable) ==
    IF reachable /\ GuardrailReplies[m].status = 200
    THEN GuardrailReplies[m]
    ELSE Reply(0, "process", NULL, FALSE, "none")

\* createOrUpdateProfileFromSMS called whatever the fragment
mergeExtractedAlways(d, phoneNumber, m) ==
    createOrUpdateProfileFromSMS(d, phoneNumber, ExtractedFromCorpus[m], m, StageOfCorpus[m])

\* Steps 2 and 3: extractInformationFromSMS, then createOrUpdateProfileFromSMS
\* when the fragment has a key
mergeExtracted(d, phoneNumber, m) ==
    IF DOMAIN ExtractedFromCorpus[m] # {}
    THEN createOrUpdateProfileFromSMS(d, phoneNumber, ExtractedFromCorpus[m], m,
                                      StageOfCorpus[m])
    ELSE d

\* what the function returns when the guardrail answer is block or redirect
guardrailResult(phoneNumber, m, mcpResponse) ==
    [ op |-> "sms", phone |-> phoneNumber, message |-> m,
      guardrail |-> IF mcpResponse.status = 200 THEN mcpResponse.action ELSE "failed",
      reply |-> mcpResponse.message, action |-> mcpResponse.action,
      escalate |-> mcpResponse.escalate,
      extractionRan |-> FALSE, extractedData |-> [k \in {} |-> ""],
      merged |-> FALSE, profileId |-> 0, completionPercentage |-> 0,
      nextQuestions |-> <<>> ]

\* what it returns for a processed message; d is the store before the merge
\* and d1 the store after it
processedResult(d, d1, phoneNumber, m, mcpResponse) ==
    LET extractedData == ExtractedFromCorpus[m]
        merged == DOMAIN extractedData # {}
        profileId == IF merged THEN smsProfileId(d, phoneNumber) ELSE 0
        completion == IF merged THEN completionPercentage(d1, profileId) ELSE 0
    IN  [ op |-> "sms", phone |-> phoneNumber, message |-> m,
          guardrail |-> IF mcpResponse.status = 200 THEN "process" ELSE "failed",
          reply |-> generateAIResponse(extractedData, merged, completion),
          action |-> "processed", escalate |-> FALSE,
          extractionRan |-> TRUE, extractedData |-> extractedData,
          merged |-> merged, profileId |-> profileId,
          completionPercentage |-> completion,
          nextQuestions |-> IF merged
                            THEN generateNextQuestions(d1, profileId, StageOfCorpus[m])
                            ELSE <<>> ]

\* processSMSMessage with the guardrail answer looked at after the merge
processSMSMessageMergeFirst(d, phoneNumber, m, reachable) ==
    LET mcpResponse == checkMCPGuardrails(m, reachable) IN
    Await(mergeExtracted(d, phoneNumber, m),
    LAMBDA d1 :
        IF mcpResponse.action \in {"block", "redirect"}
        THEN [db |-> d1, result |-> guardrailResult(phoneNumber, m, mcpResponse)]
        ELSE [db |-> d1, result |-> processedResult(d, d1, phoneNumber, m, mcpResponse)])

processSMSMessage(d, phoneNumber, m, reachable) ==
    LET mcpResponse == checkMCPGuardrails(m, reachable) IN
    IF mcpResponse.action \in {"block", "redirect"}
    THEN [db |-> d, result |-> guardrailResult(phoneNumber, m, mcpResponse)]
    ELSE Await(mergeExtracted(d, phoneNumber, m),
         LAMBDA d1 :
            [db |-> d1, result |-> processedResult(d, d1, phoneNumber, m, mcpResponse)])

\* the calls of createOrUpdateProfileFromSMS whose query is made to fail
FailingCalls == {"findUserByPhone", "logSMSInteraction"}

\* createOrUpdateProfileFromSMS when the query of the call named fails: the
\* statements of the calls before it went through the pool and stay (the
\* ROLLBACK runs on the connection `client`, which none of them used), and
\* the error is thrown again
createOrUpdateProfileFromSMSFailing(d, phoneNumber, extractedData, failing) ==
    LET userId == smsUserId(d, phoneNumber)
        profileId == smsProfileId(d, phoneNumber)
    IN
    IF failing = "findUserByPhone" THEN d
    ELSE
    Await(IF findUserByPhone(d, phoneNumber) = 0 THEN createUser(d, phoneNumber) ELSE d,
    LAMBDA d1 :
    Await(IF findProfileByUserId(d1, userId) = 0
          THEN createProfile(d1, userId, phoneNumber) ELSE d1,
    LAMBDA d2 :
        updateProfileData(d2, profileId, extractedData)))

\* what the catch block of processSMSMessage returns
errorResult(phoneNumber, m, mcpResponse) ==
    [ op |-> "sms", phone |-> phoneNumber, message |-> m,
      guardrail |-> IF mcpResponse.status = 200 THEN "process" ELSE "failed",
      reply |-> PipelineErrorText, action |-> "error", escalate |-> FALSE,
      extractionRan |-> TRUE, extractedData |-> ExtractedFromCorpus[m],
      merged |-> FALSE, profileId |-> 0, completionPercentage |-> 0,
      nextQuestions |-> <<>> ]

\* processSMSMessage when a query of createOrUpdateProfileFromSMS fails: the
\* error thrown in step 3 is caught by the catch block of the function
processSMSMessageFailing(d, phoneNumber, m, reachable, failing) ==
    [ db |-> createOrUpdateProfileFromSMSFailing(d, phoneNumber, ExtractedFromCorpus[m],
                                                 failing),
      result |-> errorResult(phoneNumber, m, checkMCPGuardrails(m, reachable)) ]

\* the ways the queries of the profile service can go for a message: they
\* are made only in step 3, for a processed message whose fragment has a key
queryOutcomes(m, reachable) ==
    IF checkMCPGuardrails(m, reachable).action \notin {"block", "redirect"}
       /\ DOMAIN ExtractedFromCorpus[m] # {}
    THEN {"none"} \cup FailingCalls
    ELSE {"none"}

\* an inbound SMS is put through the pipeline; the MCP service, when it is
\* reached and accepts the body, also logs the request in its audit table;
\* the queries of the profile service succeed or one of them fails
ReceiveSMS ==
    /\ db.now < MaxOps
    /\ \E phoneNumber \in Phones, m \in SmsCorpus, reachable \in BOOLEAN :
        \E failing \in queryOutcomes(m, reachable) :
        \E out \in {IF failing = "none"
                    THEN processSMSMessage(Tick(db), phoneNumber, m, reachable)
                    ELSE processSMSMessageFailing(Tick(db), phoneNumber, m, reachable,
                                                  failing)} :
        /\ db' = out.db
        /\ last' = out.result
        /\ IF reachable /\ GuardrailReplies[m].status = 200
           THEN \/ mcp_conversations' = mcp_conversations \cup {GuardrailRows[m]}
                \/ UNCHANGED mcp_conversations     \* the insert failed
           ELSE UNCHANGED mcp_conversations
    /\ UNCHANGED <<policy, message, classification, response, chat, calls, notifications>>

-----------------------------------------------------------------------------
(* Profile routes *)

\* POST /api/profile/sms-update
SmsUpdate ==
    /\ db.now < MaxOps
    /\ \E phoneNumber \in Phones, extractedData \in ApiFragments :
        \E d \in {Tick(db)} :
        \E result \in {smsProfileResult(d, phoneNumber, extractedData)} :
        \E d1 \in {createOrUpdateProfileFromSMS(d, phoneNumber, extractedData,
                                                "message content", "intake")} :
            /\ db' = d1
            /\ last' = [ op |-> "sms-update", phone |-> phoneNumber,
                         extractedData |-> extractedData,
                         profileId |-> result.profile.id, userId |-> result.user,
                         completionPercentage |-> completionPercentage(d1, result.profile.id),
                         verificationStatus |-> result.profile.verification_status,
                         nextQuestions |-> generateNextQuestions(d1, result.profile.id, "intake") ]
    /\ UNCHANGED <<policy, message, classification, response, chat, mcp_conversations, calls,
                   notifications>>

\* PUT /api/profile/:profileId
PutProfile ==
    /\ db.now < MaxOps
    /\ \E profileId \in 1..Len(db.user_profiles), updates \in ApiFragments :
        \E d \in {updateProfileData(Tick(db), profileId, updates)} :
        \E d1 \in {updateProfileMetrics(d, profileId)} :
            /\ db' = d1
            /\ last' = [ op |-> "put", profileId |-> profileId, extractedData |-> updates,
                         completionPercentage |-> completionPercentage(d1, profileId),
                         verificationStatus |-> d1.user_profiles[profileId].verification_status ]
    /\ UNCHANGED <<policy, message, classification, response, chat, mcp_conversations, calls,
                   notifications>>

\* GET /api/profile/:profileId/missing-info (calculateCompletionPercentage
\* rewrites the cached percentage)
GetMissingInfo ==
    /\ db.now < MaxOps
    /\ \E profileId \in 1..Len(db.user_profiles) :
        \E d \in {Tick(db)} :
        /\ db' = calculateCompletionPercentage(d, profileId)
        /\ last' = [ op |-> "missing-info", profileId |-> profileId,
                     missingFields |-> getMissingProfileInfo(d, profileId),
                     completionPercentage |-> completionPercentage(d, profileId) ]
    /\ UNCHANGED <<policy, message, classification, response, chat, mcp_conversations, calls,
                   notifications>>

\* the rows POST /api/admin/users inserts: a user, its profile (first_name,
\* last_name, email_address, primary_phone, verification_status
\* 'unverified', created_via 'admin') and an audit_log row
adminCreateUser(d, body) ==
    LET userId == Len(d.users) + 1
        nameParts == split(body.name)
        data == [c \in {"first_name", "last_name", "email_address", "primary_phone"} |->
                    CASE c = "first_name"    -> nameParts[1]
                      [] c = "last_name"     -> join(Tail(nameParts))
                      [] c = "email_address" -> body.email
                      [] c = "primary_phone" -> body.phone]
    IN  [d EXCEPT
            !.users = Append(@, [ id |-> userId, phone |-> body.phone, name |-> body.name,
                                  email |-> body.email, role |-> "client" ]),
            !.user_profiles = Append(@, NewProfileRow(Len(@) + 1, userId, data,
                                                      "unverified", "admin")),
            !.audit_log = Append(@, [action |-> "user_created", resource_id |-> userId])]

AdminCreateUser ==
    /\ db.now < MaxOps
    /\ \E body \in AdminBodies :
        /\ db' = adminCreateUser(Tick(db), body)
        /\ last' = [op |-> "admin", phone |-> body.phone, profileId |-> Len(db.user_profiles) + 1]
    /\ UNCHANGED <<policy, message, classification, response, chat, mcp_conversations, calls,
                   notifications>>

-----------------------------------------------------------------------------
(* Specification of the profile store: requests served one at a time *)

Init ==
    /\ policy = SmsPolicy
    /\ message = ""
    /\ classification = NoResult
    /\ response = NoResponse
    /\ chat = NoChat
    /\ mcp_conversations = {}
    /\ \E log \in ValidationLogs : db = [EmptyDb EXCEPT !.profile_field_validations = log]
    /\ last = [op |-> "none"]
    /\ calls = <<>>
    /\ notifications = <<>>

Next ==
    \/ ReceiveSMS
    \/ SmsUpdate
    \/ PutProfile
    \/ GetMissingInfo
    \/ AdminCreateUser

Spec == Init /\ [][Next]_vars

-----------------------------------------------------------------------------
(* createOrUpdateProfileFromSMS calls in progress at the same time.  Every  *)
(* await of a this.db.query is a step; the statements of the calls          *)
(* interleave.  BEGIN, COMMIT and ROLLBACK run on the connection `client`,  *)
(* which none of the statements uses (they go through the pool this.db),    *)
(* so they change nothing the other statements see and take no step of     *)
(* their own here.                                                          *)

\* fragments of the calls: two that write different columns and one that
\* writes none
CallFragments ==
    { [firstName |-> "Ann"], [lastName |-> "Lee"], [phoneNumber |-> "7025550101"] }

\* stores the calls start from: no user yet, or the first phone number known
\* with a profile that has a ZIP code
StartStores ==
    { [EmptyDb EXCEPT !.profile_field_validations = log] : log \in ValidationLogs }
    \cup { createOrUpdateProfileFromSMS(
                Tick([EmptyDb EXCEPT !.profile_field_validations = log]),
                "+17025550101", [zipCode |-> "89101"], "home care, zip 89101", "address")
            : log \in ValidationLogs }

NewCall(phoneNumber, extractedData) ==
    [ pc |-> "findUserByPhone", phoneNumber |-> phoneNumber,
      extractedData |-> extractedData, messageContent |-> "message content",
      conversationStage |-> "intake",
      user |-> 0, profile |-> 0, completionPercentage |-> 0, dataQualityScore |-> 0 ]

AtStatement(i, pc) == i \in DOMAIN calls /\ calls[i].pc = pc

\* let user = await this.findUserByPhone(phoneNumber)
FindUserByPhone(i) ==
    /\ AtStatement(i, "findUserByPhone")
    /\ \E user \in {findUserByPhone(db, calls[i].phoneNumber)} :
        calls' = [calls EXCEPT ![i].user = user,
                               ![i].pc = IF user = 0 THEN "createUser"
                                         ELSE "findProfileByUserId"]
    /\ UNCHANGED <<classifyVars, db, last, notifications>>

\* user = await this.createUser(phoneNumber)
CreateUser(i) ==
    /\ AtStatement(i, "createUser")
    /\ db' = createUser(Tick(db), calls[i].phoneNumber)
    /\ calls' = [calls EXCEPT ![i].user = Len(db.users) + 1,
                              ![i].pc = "findProfileByUserId"]
    /\ UNCHANGED <<classifyVars, last, notifications>>

\* let profile = await this.findProfileByUserId(user.id)
FindProfileByUserId(i) ==
    /\ AtStatement(i, "findProfileByUserId")
    /\ \E profile \in {findProfileByUserId(db, calls[i].user)} :
        calls' = [calls EXCEPT ![i].profile = profile,
                               ![i].pc = IF profile = 0 THEN "createProfile"
                                         ELSE "updateProfileData"]
    /\ UNCHANGED <<classifyVars, db, last, notifications>>

\* profile = await this.createProfile(user.id, phoneNumber)
CreateProfile(i) ==
    /\ AtStatement(i, "createProfile")
    /\ db' = createProfile(Tick(db), calls[i].user, calls[i].phoneNumber)
    /\ calls' = [calls EXCEPT ![i].profile = Len(db.user_profiles) + 1,
                              ![i].pc = "updateProfileData"]
    /\ UNCHANGED <<classifyVars, last, notifications>>

\* const updatedProfile = await this.updateProfileData(profile.id, extractedData)
UpdateProfileData(i) ==
    /\ AtStatement(i, "updateProfileData")
    /\ db' = updateProfileData(Tick(db), calls[i].profile, calls[i].extractedData)
    /\ calls' = [calls EXCEPT ![i].pc = "logSMSInteraction"]
    /\ UNCHANGED <<classifyVars, last, notifications>>

\* await this.logSMSInteraction({...})
LogSMSInteraction(i) ==
    /\ AtStatement(i, "logSMSInteraction")
    /\ db' = logSMSInteraction(Tick(db), calls[i].user, calls[i].profile,
                               calls[i].phoneNumber, calls[i].messageContent,
                               calls[i].extractedData, calls[i].conversationStage)
    /\ calls' = [calls EXCEPT ![i].pc = "metricsCompletionSelect"]
    /\ UNCHANGED <<classifyVars, last, notifications>>

\* updateProfileMetrics, calculateCompletionPercentage: the SELECT and the
\* percentage computed from the row it returns
MetricsCompletionSelect(i) ==
    /\ AtStatement(i, "metricsCompletionSelect")
    /\ calls' = [calls EXCEPT
                    ![i].completionPercentage = completionPercentage(db, calls[i].profile),
                    ![i].pc = "metricsCompletionUpdate"]
    /\ UNCHANGED <<classifyVars, db, last, notifications>>

\* updateProfileMetrics, calculateCompletionPercentage: the UPDATE
MetricsCompletionUpdate(i) ==
    /\ AtStatement(i, "metricsCompletionUpdate")
    /\ db' = storeCompletionPercentage(Tick(db), calls[i].profile,
                                       calls[i].completionPercentage)
    /\ calls' = [calls EXCEPT ![i].pc = "validationSelect"]
    /\ UNCHANGED <<classifyVars, last, notifications>>

\* updateProfileMetrics: the SELECT on profile_field_validations
ValidationSelect(i) ==
    /\ AtStatement(i, "validationSelect")
    /\ calls' = [calls EXCEPT
                    ![i].dataQualityScore = dataQualityScore(db, calls[i].profile),
                    ![i].pc = "metricsUpdate"]
    /\ UNCHANGED <<classifyVars, db, last, notifications>>

\* updateProfileMetrics: the UPDATE of data_quality_score, verification_status
\* and last_interaction_date
MetricsUpdate(i) ==
    /\ AtStatement(i, "metricsUpdate")
    /\ db' = storeMetrics(Tick(db), calls[i].profile, calls[i].dataQualityScore,
                          verificationStatus(calls[i].completionPercentage,
                                             calls[i].dataQualityScore))
    /\ calls' = [calls EXCEPT ![i].pc = "returnCompletionSelect"]
    /\ UNCHANGED <<classifyVars, last, notifications>>

\* completionPercentage: await this.calculateCompletionPercentage(profile.id)
\* of the returned object: the SELECT
ReturnCompletionSelect(i) ==
    /\ AtStatement(i, "returnCompletionSelect")
    /\ calls' = [calls EXCEPT
                    ![i].completionPercentage = completionPercentage(db, calls[i].profile),
                    ![i].pc = "returnCompletionUpdate"]
    /\ UNCHANGED <<classifyVars, db, last, notifications>>

\* ... and its UPDATE, after which the call returns
ReturnCompletionUpdate(i) ==
    /\ AtStatement(i, "returnCompletionUpdate")
    /\ db' = storeCompletionPercentage(Tick(db), calls[i].profile,
                                       calls[i].completionPercentage)
    /\ calls' = [calls EXCEPT ![i].pc = "done"]
    /\ UNCHANGED <<classifyVars, last, notifications>>

InitConc ==
    /\ policy = SmsPolicy
    /\ message = ""
    /\ classification = NoResult
    /\ response = NoResponse
    /\ chat = NoChat
    /\ mcp_conversations = {}
    /\ db \in StartStores
    /\ last = [op |-> "concurrent", before |-> db]
    /\ calls \in [1..NumCalls -> {NewCall(phoneNumber, extractedData) :
                                    phoneNumber \in Phones, extractedData \in CallFragments}]
    /\ notifications = <<>>

NextConc ==
    \E i \in 1..NumCalls :
        \/ FindUserByPhone(i)
        \/ CreateUser(i)
        \/ FindProfileByUserId(i)
        \/ CreateProfile(i)
        \/ UpdateProfileData(i)
        \/ LogSMSInteraction(i)
        \/ MetricsCompletionSelect(i)
        \/ MetricsCompletionUpdate(i)
        \/ ValidationSelect(i)
        \/ MetricsUpdate(i)
        \/ ReturnCompletionSelect(i)
        \/ ReturnCompletionUpdate(i)

SpecConc == InitConc /\ [][NextConc]_vars

-----------------------------------------------------------------------------
(* Claims on the SMS pipeline and the profile store *)

ShortCircuitActions == {"immediate_redirect", "strict_block", "brief_redirect"}

ClassOfCorpus == [m \in SmsCorpus |-> classifyContent(SmsPolicy, m)]

ProfileTables(d) == <<d.users, d.user_profiles, d.sms_profile_interactions>>

\* the step returned the fixed response of the message's classification, ran
\* no extraction and wrote no user, profile or interaction row
ShortCircuited ==
    /\ last'.reply = processSwitch(ClassOfCorpus[last'.message]).message
    /\ ~last'.extractionRan
    /\ ProfileTables(db') = ProfileTables(db)

IsMerge(r) == r.op = "sms-update" \/ (r.op = "sms" /\ r.merged)

\* the profile row a merge starts from: the stored row, or the row
\* createProfile inserts for a phone number seen for the first time
rowBefore(d, r) ==
    IF ProfileExists(d, r.profileId)
    THEN d.user_profiles[r.profileId]
    ELSE NewProfileRow(r.profileId, smsUserId(d, r.phone),
                       [c \in {"primary_phone"} |-> r.phone], "unverified", "sms")

rowAfter(d, r) == d.user_profiles[r.profileId]

\* C8 (as claimed): every merge increments the interaction count by exactly 1
\* and refreshes the last-interaction timestamp, whatever the fragment.
C8_CountAlwaysIncremented ==
    [][IsMerge(last') =>
        /\ rowAfter(db', last').sms_conversation_count
                = rowBefore(db, last').sms_conversation_count + 1
        /\ rowAfter(db', last').last_interaction_date = db'.now]_vars

\* C8 (amended): a merge whose fragment has a key that maps to a column with a
\* non-null value increments the count by exactly 1 and refreshes the update
\* timestamps; any other merge leaves the count and the update timestamps
\* unchanged; every merge refreshes the last-interaction date.
C8_CountIncrementedWhenWritten ==
    [][IsMerge(last') =>
        /\ rowAfter(db', last').last_interaction_date = db'.now
        /\ IF updatedKeys(last'.extractedData) # {}
           THEN /\ rowAfter(db', last').sms_conversation_count
                        = rowBefore(db, last').sms_conversation_count + 1
                /\ rowAfter(db', last').updated_at = db'.now
                /\ rowAfter(db', last').last_updated_via_sms = db'.now
           ELSE /\ rowAfter(db', last').sms_conversation_count
                        = rowBefore(db, last').sms_conversation_count
                /\ rowAfter(db', last').updated_at = rowBefore(db, last').updated_at
                /\ rowAfter(db', last').last_updated_via_sms
                        = rowBefore(db, last').last_updated_via_sms]_vars

\* a second merge into the same profile has been counted
C8_Witness ==
    /\ IsMerge(last)
    /\ updatedKeys(last.extractedData) # {}
    /\ db.user_profiles[last.profileId].sms_conversation_count = 2
    /\ db.user_profiles[last.profileId].last_interaction_date = db.now

\* the request served by the step ran updateProfileData
IsFieldWrite(r) == IsMerge(r) \/ r.op = "put"

\* the columns named by the keys of a fragment, and the value a fragment
\* carries for a column
presentColumns(f) == {fieldMapping[k] : k \in DOMAIN f \cap DOMAIN fieldMapping}
nonNullColumns(f) == {fieldMapping[k] : k \in updatedKeys(f)}
valueFor(f, c) == f[CHOOSE k \in DOMAIN f \cap DOMAIN fieldMapping : fieldMapping[k] = c]

\* C9 (as claimed): a merge sets every field whose key is present in the
\* fragment to the fragment's value and leaves every other field unchanged.
C9_PresentKeysOverwrite ==
    [][IsFieldWrite(last') =>
        \A c \in DataColumns :
            rowAfter(db', last').data[c]
                = IF c \in presentColumns(last'.extractedData)
                  THEN valueFor(last'.extractedData, c)
                  ELSE rowBefore(db, last').data[c]]_vars

\* C9 (amended): a merge sets every field whose key is present in the
\* fragment with a non-null value to that value and leaves every other field
\* unchanged, the fields whose key is present with a null value included.
C9_NonNullKeysOverwrite ==
    [][IsFieldWrite(last') =>
        rowAfter(db', last').data
            = [c \in nonNullColumns(last'.extractedData) |-> valueFor(last'.extractedData, c)]
                @@ rowBefore(db, last').data]_vars

\* {firstName: Ann} then {lastName: Lee} have been merged into one profile,
\* which has both
C9_Witness ==
    /\ last.op = "sms-update"
    /\ last.extractedData = [lastName |-> "Lee"]
    /\ db.user_profiles[last.profileId].sms_conversation_count = 2
    /\ db.user_profiles[last.profileId].data["first_name"] = "Ann"
    /\ db.user_profiles[last.profileId].data["last_name"] = "Lee"

\* the fields and the cached scores of a profile row
ScoredView(row) ==
    <<row.data, row.profile_completion_percentage, row.verification_status>>

\* C10: merging the fragment that was merged last into the same profile once
\* more leaves the fields, the completion percentage and the verification
\* status as they were.
C10_MergeIdempotent ==
    [][(/\ IsMerge(last) /\ IsMerge(last')
        /\ last'.phone = last.phone
        /\ last'.extractedData = last.extractedData)
       => ScoredView(rowAfter(db', last')) = ScoredView(rowAfter(db, last))]_vars

\* one fragment with a mapped key was merged twice into the same profile
C10_Witness ==
    /\ IsMerge(last)
    /\ updatedKeys(last.extractedData) # {}
    /\ db.user_profiles[last.profileId].sms_conversation_count = 2
    /\ \E i, j \in 1..Len(db.sms_profile_interactions) :
        /\ i < j
        /\ db.sms_profile_interactions[i].profile_id = last.profileId
        /\ db.sms_profile_interactions[j].profile_id = last.profileId
        /\ db.sms_profile_interactions[i].extracted_data = last.extractedData
        /\ db.sms_profile_interactions[j].extracted_data = last.extractedData

-----------------------------------------------------------------------------
(* Claims on calls in progress at the same time *)

AllReturned == calls # <<>> /\ \A i \in DOMAIN calls : calls[i].pc = "done"

\* the profile an inbound message from the phone number is matched to: its
\* fields, interaction count and cached scores
storedProfileView(d, phoneNumber) ==
    LET row == d.user_profiles[findProfileByUserId(d, findUserByPhone(d, phoneNumber))]
    IN  <<row.data, row.sms_conversation_count,
          row.profile_completion_percentage, row.verification_status>>

\* the store after call a and then call b, each run to its end alone
oneAfterTheOther(d, a, b) ==
    Await(createOrUpdateProfileFromSMS(Tick(d), a.phoneNumber, a.extractedData,
                                       a.messageContent, a.conversationStage),
    LAMBDA d1 :
        createOrUpdateProfileFromSMS(Tick(d1), b.phoneNumber, b.extractedData,
                                     b.messageContent, b.conversationStage))

\* C5 (as claimed): when two calls for the same phone number have returned,
\* the stored profile (fields, conversation count, cached completion
\* percentage and verification status) is the one that running the two calls
\* one after the other, in one of the two orders, leaves.
C5_SameAsOneAfterTheOther ==
    (AllReturned /\ calls[1].phoneNumber = calls[2].phoneNumber)
    => storedProfileView(db, calls[1].phoneNumber)
        \in { storedProfileView(oneAfterTheOther(last.before, calls[1], calls[2]),
                                calls[1].phoneNumber),
              storedProfileView(oneAfterTheOther(last.before, calls[2], calls[1]),
                                calls[1].phoneNumber) }

\* C6 (as claimed): at most one user and at most one profile exist for a
\* phone number.
C6_PhoneIsUniqueKey ==
    \A phoneNumber \in Phones :
        /\ Cardinality({i \in 1..Len(db.users) : db.users[i].phone = phoneNumber}) <= 1
        /\ Cardinality({j \in 1..Len(db.user_profiles) :
                            db.user_profiles[j].data["primary_phone"] = phoneNumber}) <= 1

-----------------------------------------------------------------------------
(* Specification of the profile routes on a profile already filled in: the  *)
(* store holds one user and one profile whose columns and validation log    *)
(* are drawn, with its cached scores as updateProfileMetrics leaves them,   *)
(* and one request is left to serve                                         *)

\* values of a scored column that is not filled in
BlankValues == {NULL, "", " "}

\* what the filled-in columns hold
SampleProfile ==
    [c \in DataColumns |->
        CASE c = "first_name"    -> "Ann"
          [] c = "last_name"     -> "Lee"
          [] c = "primary_phone" -> "+17025550101"
          [] c = "zip_code"      -> "89101"
          [] c = "date_of_birth" -> "01/02/1950"
          [] c = "state"         -> "NV"
          [] OTHER               -> "on file"]

ScoredColumns == Range(requiredFields) \cup Range(importantFields) \cup Range(optionalFields)

\* the drawn sets of filled-in columns: any of the required fields, the
\* first i important fields and the first o optional fields
FilledColumns ==
    { required \cup {importantFields[k] : k \in 1..i} \cup {optionalFields[k] : k \in 1..o} :
        required \in SUBSET Range(requiredFields),
        i \in 0..Len(importantFields), o \in 0..Len(optionalFields) }

\* rows of profile_field_validations of profile 1: none, or five of which
\* the first n are valid
ScoreLogs ==
    {<<>>} \cup
    { [k \in 1..5 |-> [ profile_id |-> 1,
                        validation_status |-> IF k <= n THEN "valid"
                                              ELSE "needs_verification" ]] : n \in 2..4 }

DrawnStore(filled, blank, log) ==
    LET data == [c \in ScoredColumns |-> IF c \in filled THEN SampleProfile[c] ELSE blank]
        phone == IF "primary_phone" \in filled THEN data["primary_phone"] ELSE NULL
        stored ==
            [EmptyDb EXCEPT
                !.users = << [ id |-> 1, phone |-> phone, name |-> NULL,
                               email |-> NULL, role |-> "client" ] >>,
                !.user_profiles = << NewProfileRow(1, 1, data, "unverified",
                                        IF phone = NULL THEN "admin" ELSE "sms") >>,
                !.profile_field_validations = log,
                !.now = MaxOps - 1]
    IN  updateProfileMetrics(stored, 1)

\* the stages GET /api/profile/:profileId/next-questions accepts
QueryStages == {"intake", "address", "emergency_contact", "medical", "verification", "update"}

\* GET /api/profile/:profileId/next-questions
GetNextQuestions ==
    /\ db.now < MaxOps
    /\ \E profileId \in 1..Len(db.user_profiles), stage \in QueryStages :
        /\ db' = Tick(db)
        /\ last' = [ op |-> "next-questions", profileId |-> profileId,
                     conversationStage |-> stage,
                     missingFields |-> getMissingProfileInfo(db, profileId),
                     nextQuestions |-> generateNextQuestions(db, profileId, stage) ]
    /\ UNCHANGED <<policy, message, classification, response, chat, mcp_conversations, calls,
                   notifications>>

InitProfile ==
    /\ policy = SmsPolicy
    /\ message = ""
    /\ classification = NoResult
    /\ response = NoResponse
    /\ chat = NoChat
    /\ mcp_conversations = {}
    /\ \E filled \in FilledColumns, blank \in BlankValues, log \in ScoreLogs :
        db = DrawnStore(filled, blank, log)
    /\ last = [op |-> "none"]
    /\ calls = <<>>
    /\ notifications = <<>>

NextProfile ==
    \/ PutProfile
    \/ GetMissingInfo
    \/ GetNextQuestions

SpecProfile == InitProfile /\ [][NextProfile]_vars

-----------------------------------------------------------------------------
(* Claims on the completion percentage *)

\* a field is present when it is non-empty after trimming
Filled(data, c) == data[c] # NULL /\ trim(data[c]) # ""

\* 40 per required field present, 30 per important one, 10 per optional one
Achieved(data) ==
    40 * Cardinality({c \in {"first_name", "last_name", "primary_phone", "zip_code"} :
                        Filled(data, c)})
    + 30 * Cardinality({c \in Range(importantFields) : Filled(data, c)})
    + 10 * Cardinality({c \in Range(optionalFields) : Filled(data, c)})

\* the integer nearest to 100 * achieved / 440
NearestPercent(achieved) == CHOOSE p \in 0..100 : 880 * p - 440 <= 200 * achieved
                                                 /\ 200 * achieved < 880 * p + 440

\* C11: the completion percentage a request computes for a profile is
\* round(100 * achieved / 440), where achieved adds 40 for each of first
\* name, last name, primary phone and zip present, 30 for each of the six
\* important fields and 10 for each of the ten optional fields, a field
\* being present only when non-empty after trimming; it is an integer in
\* 0..100, 0 exactly when no scored field is present and 100 exactly when
\* all twenty are.
C11_CompletionFormula ==
    (last.op \in {"put", "missing-info"})
    => LET data == db.user_profiles[last.profileId].data
           present == {c \in ScoredColumns : Filled(data, c)}
       IN  /\ last.completionPercentage \in 0..100
           /\ last.completionPercentage = NearestPercent(Achieved(data))
           /\ db.user_profiles[last.profileId].profile_completion_percentage
                = last.completionPercentage
           /\ (last.completionPercentage = 0) <=> (present = {})
           /\ (last.completionPercentage = 100) <=> (present = ScoredColumns)

\* the percentage was computed for a profile in which some scored fields are
\* filled in, one holds only white space, and the rounding goes up
C11_Witness ==
    /\ last.op = "missing-info"
    /\ last.completionPercentage = 80
    /\ Achieved(db.user_profiles[last.profileId].data) = 350
    /\ \E c \in ScoredColumns : db.user_profiles[last.profileId].data[c] = " "

-----------------------------------------------------------------------------
(* Claims on merges and the completion percentage *)

\* the fragment sets a scored field to an empty or white-space-only value
blanksScoredField(f) ==
    \E k \in updatedKeys(f) : fieldMapping[k] \in ScoredColumns /\ trim(f[k]) = ""

\* C12: over any sequence of merges in which no fragment sets a scored field
\* to an empty or white-space-only value, the completion percentage of the
\* profile never decreases from one merge to the next: a merge of such a
\* fragment leaves a completion percentage at least the one it found.
C12_CompletionNeverDecreases ==
    [][(IsMerge(last') /\ ~blanksScoredField(last'.extractedData))
       => /\ completionOf(rowAfter(db', last').data) >= completionOf(rowBefore(db, last').data)
          /\ rowAfter(db', last').profile_completion_percentage
                >= rowBefore(db, last').profile_completion_percentage]_vars

\* two merges into one profile, the second of which raised its completion
\* percentage from 18 to 27
C12_Witness ==
    /\ IsMerge(last)
    /\ ~blanksScoredField(last.extractedData)
    /\ db.user_profiles[last.profileId].sms_conversation_count = 2
    /\ db.user_profiles[last.profileId].profile_completion_percentage = 27

-----------------------------------------------------------------------------
(* Claims on the verification status *)

\* C13: for every completion percentage c and quality score q in 0..100 the
\* verification status is 'verified' iff c >= 80 and q >= 80; otherwise it is
\* 'partial' iff c >= 50 or q >= 60; otherwise 'unverified' (the verified
\* check is made first).  Stated of the status a PUT stores with the scores
\* it computed.
C13_VerificationThresholds ==
    (last.op = "put")
    => LET row == db.user_profiles[last.profileId]
           c == row.profile_completion_percentage
           q == row.data_quality_score
       IN  /\ c \in 0..100 /\ q \in 0..100
           /\ row.verification_status \in {"verified", "partial", "unverified"}
           /\ (row.verification_status = "verified") <=> (c >= 80 /\ q >= 80)
           /\ (row.verification_status = "partial")
                <=> (~(c >= 80 /\ q >= 80) /\ (c >= 50 \/ q >= 60))
           /\ last.verificationStatus = row.verification_status

\* a PUT stored 'verified' with both scores exactly 80
C13_Witness ==
    /\ last.op = "put"
    /\ db.user_profiles[last.profileId].profile_completion_percentage = 80
    /\ db.user_profiles[last.profileId].data_quality_score = 80
    /\ db.user_profiles[last.profileId].verification_status = "verified"

-----------------------------------------------------------------------------
(* Claims on the missing fields and the next questions *)

\* the required and important fields the completion percentage counts
RequiredAndImportant ==
    {"first_name", "last_name", "primary_phone", "zip_code", "date_of_birth",
     "street_address", "city", "state", "emergency_contact_1_name",
     "emergency_contact_1_phone"}

\* C14 (as claimed): getMissingProfileInfo returns the empty list exactly
\* when first name, last name, primary phone, zip, date of birth, street
\* address, city, state, emergency contact name and emergency contact phone
\* are all present.
C14_EmptyIffRequiredAndImportantPresent ==
    (last.op = "missing-info")
    => ((last.missingFields = <<>>)
        <=> \A c \in RequiredAndImportant :
                Filled(db.user_profiles[last.profileId].data, c))

\* C14 (amended): getMissingProfileInfo returns the empty list exactly when
\* first name, last name, zip, date of birth, street address, city, state,
\* emergency contact name and emergency contact phone are all present; the
\* primary phone, which the completion percentage counts as required, is not
\* looked at.
C14_EmptyIffNineFieldsPresent ==
    (last.op = "missing-info")
    => ((last.missingFields = <<>>)
        <=> \A c \in RequiredAndImportant \ {"primary_phone"} :
                Filled(db.user_profiles[last.profileId].data, c))

\* the list returned for a profile without a primary phone is empty
C14_Witness ==
    /\ last.op = "missing-info"
    /\ last.missingFields = <<>>
    /\ ~Filled(db.user_profiles[last.profileId].data, "primary_phone")

-----------------------------------------------------------------------------
(* Specification of extraction and stage selection: steps 2 and 5 of        *)
(* processSMSMessage on a drawn message                                     *)

MariaMessage == "My name is Maria Lopez, I'm 34 years old, zip 89101"

\* messages put together from a sentence giving a name, words the stage
\* rules look for and a sentence giving a field
StageCorpus ==
    { name \o words \o field :
        name \in {"", "My name is Maria Lopez, "},
        words \in {"", "hello", "my address", "emergency", "Contact", "medical",
                   "condition", "medication", "emergency medication",
                   "medical ADDRESS contact"},
        field \in {"", " zip 89101", " I live at 12 Oak Street", " medicaid id AB12"} }
    \cup {MariaMessage}

\* Step 2: const extractedData = await extractInformationFromSMS(message, logger)
ExtractStep ==
    /\ last.op = "received"
    /\ last' = [ op |-> "extracted", message |-> message,
                 extractedData |-> extractInformationFromSMS(message) ]
    /\ UNCHANGED <<policy, message, classification, response, chat, mcp_conversations,
                   db, calls, notifications>>

\* determineConversationStage(message, extractedData)
StageStep ==
    /\ last.op = "extracted"
    /\ last' = [ op |-> "stage", message |-> message,
                 extractedData |-> last.extractedData,
                 stage |-> determineConversationStage(message, last.extractedData) ]
    /\ UNCHANGED <<policy, message, classification, response, chat, mcp_conversations,
                   db, calls, notifications>>

InitStage ==
    /\ policy = SmsPolicy
    /\ message \in StageCorpus
    /\ classification = NoResult
    /\ response = NoResponse
    /\ chat = NoChat
    /\ mcp_conversations = {}
    /\ db = EmptyDb
    /\ last = [op |-> "received"]
    /\ calls = <<>>
    /\ notifications = <<>>

NextStage ==
    \/ ExtractStep
    \/ StageStep

SpecStage == InitStage /\ [][NextStage]_vars

-----------------------------------------------------------------------------
(* Claims on the conversation stage *)

\* the rules in the order they are tried: the stage, the words looked for
\* in the lower-cased message and the fragment keys looked for
StageRules ==
    << [stage |-> "address", words |-> {"address"}, keys |-> {"streetAddress", "zipCode"}],
       [stage |-> "emergency_contact", words |-> {"emergency", "contact"}, keys |-> {}],
       [stage |-> "medical", words |-> {"medical", "condition", "medication"}, keys |-> {}],
       [stage |-> "intake", words |-> {}, keys |-> {"firstName", "lastName", "medicaidId"}] >>

RuleMatches(rule, m, f) ==
    \/ \E w \in rule.words : includes(toLowerCase(m), w)
    \/ rule.keys \cap DOMAIN f # {}

MatchingRules(m, f) == {k \in 1..Len(StageRules) : RuleMatches(StageRules[k], m, f)}

\* C15: determineConversationStage returns the stage of the first matching
\* rule, the rules being tried in this order: the message contains 'address'
\* or the fragment has a street address or zip -> address; the message
\* contains 'emergency' or 'contact' -> emergency_contact; the message
\* contains 'medical', 'condition' or 'medication' -> medical; the fragment
\* has a first name, last name or Medicaid ID -> intake; no rule matches ->
\* general.
C15_FirstMatchingStageRule ==
    (last.op = "stage")
    => last.stage = IF MatchingRules(last.message, last.extractedData) = {} THEN "general"
                    ELSE StageRules[Min(MatchingRules(last.message, last.extractedData))].stage

\* a message matching the emergency_contact, medical and intake rules got
\* the stage of the first of them
C15_Witness ==
    /\ last.op = "stage"
    /\ MatchingRules(last.message, last.extractedData) = {2, 3, 4}
    /\ last.stage = "emergency_contact"

\* the age is the number 34, written as parseInt writes numbers
MariaFragment ==
    [firstName |-> "Maria", lastName |-> "Lopez", age |-> parseInt("34"), zipCode |-> "89101"]

\* C16 (as claimed): for the message "My name is Maria Lopez, I'm 34 years
\* old, zip 89101" extraction yields exactly {firstName: Maria, lastName:
\* Lopez, age: 34, zipCode: 89101} and the stage selected is intake.
C16_MariaLopezIntake ==
    (last.op = "stage" /\ last.message = MariaMessage)
    => (last.extractedData = MariaFragment /\ last.stage = "intake")

\* C16 (amended): for that message extraction yields exactly {firstName:
\* Maria, lastName: Lopez, age: 34, zipCode: 89101} and the stage selected is
\* address, the fragment having a zip.
C16_MariaLopezAddress ==
    (last.op = "stage" /\ last.message = MariaMessage)
    => (last.extractedData = MariaFragment /\ last.stage = "address")

\* the stage was selected for that message
C16_Witness ==
    /\ last.op = "stage"
    /\ last.message = MariaMessage
    /\ DOMAIN last.extractedData = {"firstName", "lastName", "age", "zipCode"}

\* the fields relevant to a stage, in the order they are asked for, and the
\* question asked for each
StageFields(stage) ==
    CASE stage = "intake"            -> <<"first_name", "last_name", "date_of_birth">>
      [] stage = "address"           -> <<"street_address", "city", "zip_code">>
      [] stage = "emergency_contact" -> <<"emergency_contact_1_name",
                                          "emergency_contact_1_phone">>
      [] OTHER                       -> <<>>

StageQuestion(field) ==
    CASE field = "first_name"                -> "What's your first name?"
      [] field = "last_name"                 -> "What's your last name?"
      [] field = "date_of_birth"             -> "What's your date of birth? (MM/DD/YYYY)"
      [] field = "street_address"            -> "What's your street address?"
      [] field = "city"                      -> "What city do you live in?"
      [] field = "zip_code"                  -> "What's your ZIP code?"
      [] field = "emergency_contact_1_name"  -> "Who should we contact in case of emergency?"
      [] field = "emergency_contact_1_phone" -> "What's their phone number?"

\* the question for the highest-priority missing field, whatever the stage
GeneralQuestion(missing) ==
    "Could you provide your " \o toLowerCase(missing[1].label) \o "?"

\* C17: when at least one field is missing, generateNextQuestions asks for
\* the first still-missing field relevant to the stage (intake: first name,
\* last name, date of birth; address: street, city, zip; emergency_contact:
\* contact name, contact phone), and when no field relevant to the stage is
\* missing it asks for the highest-priority missing field; it never answers
\* with an acknowledgment that asks nothing while a field is missing.
C17_AsksForAMissingField ==
    (last.op = "next-questions" /\ last.missingFields # <<>>)
    => LET fields == StageFields(last.conversationStage)
           relevant == {k \in 1..Len(fields) : isMissing(last.missingFields, fields[k])}
       IN  /\ last.nextQuestions # <<ThanksText>>
           /\ last.nextQuestions =
                IF relevant # {} THEN <<StageQuestion(fields[Min(relevant)])>>
                ELSE <<GeneralQuestion(last.missingFields)>>

-----------------------------------------------------------------------------
(* Claims on the SMS pipeline: questions, profile creation, failures *)

\* the profile an inbound message from the phone number is matched to (0 when
\* there is none)
senderProfile(d, phoneNumber) ==
    IF findUserByPhone(d, phoneNumber) = 0 THEN 0
    ELSE findProfileByUserId(d, findUserByPhone(d, phoneNumber))

\* C18: for a processed message in which no extraction rule and no stage
\* keyword matches, the fragment is empty, the stage is general, and the
\* next questions the pipeline returns are a single question, the one for
\* the highest-priority missing field of the sender's profile.
C18_SingleQuestionWhenNothingMatches ==
    (/\ last.op = "sms" /\ last.action = "processed"
     /\ DOMAIN last.extractedData = {}
     /\ MatchingRules(last.message, last.extractedData) = {})
    => /\ StageOfCorpus[last.message] = "general"
       /\ Len(last.nextQuestions) = 1
       /\ LET profileId == senderProfile(db, last.phone) IN
            (profileId # 0 /\ getMissingProfileInfo(db, profileId) # <<>>)
            => last.nextQuestions = <<GeneralQuestion(getMissingProfileInfo(db, profileId))>>

\* the step served a processed inbound message, the first from a phone
\* number that had no profile
FirstProcessedMessage ==
    /\ last'.op = "sms" /\ last'.action = "processed"
    /\ senderProfile(db, last'.phone) = 0

\* a profile keyed by the phone number exists
profileKeyedBy(d, phoneNumber) ==
    /\ senderProfile(d, phoneNumber) # 0
    /\ d.user_profiles[senderProfile(d, phoneNumber)].data["primary_phone"] = phoneNumber

C20_ReplyKeptOnPersistenceFailure ==
    [][(last'.op = "sms" /\ last'.action = "error")
       => /\ last'.reply = processSMSMessage(Tick(db), last'.phone, last'.message,
                                             FALSE).result.reply
          /\ last'.reply # PipelineErrorText]_vars

-----------------------------------------------------------------------------
(* Specification of the classifier under a policy file that leaves phrase   *)
(* lists out or empty: each of the four lists is missing, empty or holds    *)
(* one phrase                                                               *)

DegradedPolicies ==
    { p \in [ emergency_keywords : {{}, {"a"}},
              strict_blocks      : {{}, {"bB"}},
              soft_blocks        : {{}, {"a"}},
              allowed_domains    : [ primary_services : {{}, {"bB"}},
                                     administrative   : {{}},
                                     informational    : {{}} ],
              missing            : SUBSET TierNames ] :
        /\ "emergency_handling" \in p.missing => p.emergency_keywords = {}
        /\ "strict_blocks" \in p.missing => p.strict_blocks = {}
        /\ "soft_blocks" \in p.missing => p.soft_blocks = {}
        /\ "allowed_domains" \in p.missing => allowedDomainsOf(p) = {} }

InitPolicy ==
    /\ policy \in DegradedPolicies
    /\ message \in Messages \cup {Undefined}
    /\ classification = NoResult
    /\ response = NoResponse
    /\ chat = NoChat
    /\ mcp_conversations = {}
    /\ db = EmptyDb
    /\ last = [op |-> "none"]
    /\ calls = <<>>
    /\ notifications = <<>>

SpecPolicy == InitPolicy /\ [][NextClassify]_vars

\* C21: classification never fails because of the policy: for every
\* message, when any of the policy's phrase lists is missing or empty,
\* classifyContent still returns a result, and with all four lists missing
\* or empty it returns (unknown, brief_redirect, low).
C21_ClassificationNeverFails ==
    (message # Undefined /\ classification # NoResult)
    => /\ classification # TypeError
       /\ (/\ policy.emergency_keywords = {} /\ policy.strict_blocks = {}
           /\ policy.soft_blocks = {} /\ allowedDomainsOf(policy) = {})
          => classification = Outcome("unknown", "brief_redirect", "low")

-----------------------------------------------------------------------------
(* PHI detection and redaction (MCP service).  A pattern is named by the   *)
(* type detectPHI gives it; the three patterns of mask_partial are named    *)
(* mask_ssn, mask_phone and mask_email.  patternEnd(k, s, i) is the index   *)
(* after the match of pattern k that starts at index i, 0 when there is     *)
(* none.                                                                    *)

\* ['ssn', 'credit_card', 'email', 'phone', 'date'], the order of phiPatterns
phiTypes == <<"ssn", "credit_card", "email", "phone", "date">>

digitsAt(s, i, n) == \A d \in 0..(n - 1) : At(s, i + d) \in Digits

\* /\b\d{3}-\d{2}-\d{4}\b/
ssnEnd(s, i) ==
    IF /\ boundary(s, i) /\ digitsAt(s, i, 3) /\ At(s, i + 3) = "-"
       /\ digitsAt(s, i + 4, 2) /\ At(s, i + 6) = "-"
       /\ digitsAt(s, i + 7, 4) /\ boundary(s, i + 11)
    THEN i + 11 ELSE 0

\* /\b\d{4}\s?\d{4}\s?\d{4}\s?\d{4}\b/
cardEnd(s, i) ==
    LET j == i + 4 + (IF At(s, i + 4) \in WhiteSpace THEN 1 ELSE 0)
        k == j + 4 + (IF At(s, j + 4) \in WhiteSpace THEN 1 ELSE 0)
        l == k + 4 + (IF At(s, k + 4) \in WhiteSpace THEN 1 ELSE 0)
    IN  IF /\ boundary(s, i) /\ digitsAt(s, i, 4) /\ digitsAt(s, j, 4)
           /\ digitsAt(s, k, 4) /\ digitsAt(s, l, 4) /\ boundary(s, l + 4)
        THEN l + 4 ELSE 0

LocalChars == Letters \cup Digits \cup {".", "_", "%", "+", "-"}
DomainChars == Letters \cup Digits \cup {".", "-"}
\* [A-Z|a-z]: the bar is a member of the class
TldChars == Letters \cup {"|"}

\* @[A-Za-z0-9.-]+\.[A-Z|a-z]{2,}\b with the @ at index a: the greedy domain
\* gives way to the last dot after which two or more class characters end on
\* a word boundary
emailTailEnd(s, a) ==
    LET dEnd == runEnd(s, a + 1, DomainChars)
        tldEnds(p) == {e \in (p + 2)..runEnd(s, p + 1, TldChars) : boundary(s, e + 1)}
        dots == {p \in (a + 2)..dEnd : At(s, p) = "." /\ tldEnds(p) # {}}
    IN  IF At(s, a) = "@" /\ dots # {} THEN Max(tldEnds(Max(dots))) + 1 ELSE 0

\* /\b[A-Za-z0-9._%+-]+@[A-Za-z0-9.-]+\.[A-Z|a-z]{2,}\b/
emailEnd(s, i) ==
    IF boundary(s, i) /\ At(s, i) \in LocalChars
    THEN emailTailEnd(s, runEnd(s, i, LocalChars) + 1)
    ELSE 0

\* /\b\d{10,11}\b/
phoneDigitsEnd(s, i) ==
    LET e == runEnd(s, i, Digits) IN
    IF boundary(s, i) /\ e - i + 1 \in {10, 11} /\ boundary(s, e + 1) THEN e + 1 ELSE 0

\* /\b\d{1,2}\/\d{1,2}\/\d{2,4}\b/
dateEnd(s, i) ==
    LET a == runEnd(s, i, Digits)
        b == runEnd(s, a + 2, Digits)
        c == runEnd(s, b + 2, Digits)
    IN  IF /\ boundary(s, i) /\ a - i + 1 \in {1, 2} /\ At(s, a + 1) = "/"
           /\ b - a - 1 \in {1, 2} /\ At(s, b + 1) = "/"
           /\ c - b - 1 \in {2, 3, 4} /\ boundary(s, c + 1)
        THEN c + 1 ELSE 0

\* /\b(\d{3})-?(\d{3})-?(\d{4})\b/
maskPhoneEnd(s, i) ==
    LET j == i + 3 + (IF At(s, i + 3) = "-" THEN 1 ELSE 0)
        k == j + 3 + (IF At(s, j + 3) = "-" THEN 1 ELSE 0)
    IN  IF /\ boundary(s, i) /\ digitsAt(s, i, 3) /\ digitsAt(s, j, 3)
           /\ digitsAt(s, k, 4) /\ boundary(s, k + 4)
        THEN k + 4 ELSE 0

\* /\b([A-Za-z])[A-Za-z0-9._%+-]*@([A-Za-z0-9.-]+\.[A-Z|a-z]{2,})\b/
maskEmailEnd(s, i) ==
    IF boundary(s, i) /\ At(s, i) \in Letters
    THEN emailTailEnd(s, runEnd(s, i + 1, LocalChars) + 1)
    ELSE 0

patternEnd(k, s, i) ==
    CASE k \in {"ssn", "mask_ssn"} -> ssnEnd(s, i)
      [] k = "credit_card"         -> cardEnd(s, i)
      [] k = "email"               -> emailEnd(s, i)
      [] k = "phone"               -> phoneDigitsEnd(s, i)
      [] k = "date"                -> dateEnd(s, i)
      [] k = "mask_phone"          -> maskPhoneEnd(s, i)
      [] k = "mask_email"          -> maskEmailEnd(s, i)

\* the replacement string of text.replace(pattern, ...) for the match m
replacementFor(k, m) ==
    CASE k = "mask_ssn"   -> "XXX-XX-" \o SubSeq(m, Len(m) - 3, Len(m))
      [] k = "mask_phone" -> "XXX-XXX-" \o SubSeq(m, Len(m) - 3, Len(m))
      [] k = "mask_email" ->
            CharAt(m, 1) \o "***@"
                \o SubSeq(m, Min({a \in 1..Len(m) : CharAt(m, a) = "@"}) + 1, Len(m))
      [] OTHER            -> "[REDACTED]"

\* the matches of a global pattern from index i on: leftmost first, each
\* search starting after the match before; <<first, last>> of each
RECURSIVE matchSpans(_, _, _)
matchSpans(k, s, i) ==
    LET starts == {j \in i..Len(s) : patternEnd(k, s, j) # 0} IN
    IF starts = {} THEN <<>>
    ELSE <<<<Min(starts), patternEnd(k, s, Min(starts)) - 1>>>>
            \o matchSpans(k, s, patternEnd(k, s, Min(starts)))

\* the text from index i on with the spans replaced
RECURSIVE replaceSpans(_, _, _, _)
replaceSpans(k, s, i, spans) ==
    IF spans = <<>> THEN SubSeq(s, i, Len(s))
    ELSE SubSeq(s, i, spans[1][1] - 1)
            \o replacementFor(k, SubSeq(s, spans[1][1], spans[1][2]))
            \o replaceSpans(k, s, spans[1][2] + 1, Tail(spans))

\* text.replace(pattern, replacement) of a global pattern
replaceAll(k, s) == replaceSpans(k, s, 1, matchSpans(k, s, 1))

\* text.match(pattern) of a global pattern: the matched strings
matchesOf(k, s) ==
    [n \in 1..Len(matchSpans(k, s, 1)) |->
        SubSeq(s, matchSpans(k, s, 1)[n][1], matchSpans(k, s, 1)[n][2])]

\* detectPHI
detectPHI(text) ==
    [n \in 1..Len(SelectSeq(phiTypes, LAMBDA k : matchesOf(k, text) # <<>>)) |->
        LET k == SelectSeq(phiTypes, LAMBDA t : matchesOf(t, text) # <<>>)[n]
        IN  [type |-> k, matches |-> matchesOf(k, text)]]

\* full_redact with the date pattern left out
redactPHIWithoutDates(text, mode) ==
    IF mode = "mask_partial"
    THEN replaceAll("mask_email", replaceAll("mask_phone", replaceAll("mask_ssn", text)))
    ELSE IF mode = "full_redact"
    THEN replaceAll("phone", replaceAll("email",
            replaceAll("credit_card", replaceAll("ssn", text))))
    ELSE text

\* redactPHI
redactPHI(text, mode) ==
    IF mode = "mask_partial"
    THEN replaceAll("mask_email", replaceAll("mask_phone", replaceAll("mask_ssn", text)))
    ELSE IF mode = "full_redact"
    THEN replaceAll("date", replaceAll("phone", replaceAll("email",
            replaceAll("credit_card", replaceAll("ssn", text)))))
    ELSE text

-----------------------------------------------------------------------------
(* Specification of PHI handling in POST /process: detectPHI(message), then *)
(* redactPHI(message, mode) for the row that is logged, on a drawn message  *)

\* pieces that match a pattern, or nearly do
PhiTokens ==
    {"", "123-45-6789", "1234 5678 9012 3456", "1234567890123456", "ann@ex.co",
     "9ann@ex.co", "7025550101", "17025550101", "702-555-0101", "1/2/2024", "12/31/99"}

\* what stands between two pieces
PhiGlue == {"", " ", "-", "/", "@", ".", "|", "_", "x", "1"}

PhiCorpus == {a \o g \o b : a \in PhiTokens, g \in PhiGlue, b \in PhiTokens}

\* const phiDetected = detectPHI(message)
DetectStep ==
    /\ last.op = "received"
    /\ last' = [op |-> "detected", detected |-> detectPHI(message)]
    /\ UNCHANGED <<policy, message, classification, response, chat, mcp_conversations,
                   db, calls, notifications>>

\* redactPHI(message, mcpPolicy.privacy_protection.phi_redaction)
RedactStep ==
    /\ last.op = "detected"
    /\ \E mode \in {"mask_partial", "full_redact"} :
        last' = [ op |-> "redacted", mode |-> mode, detected |-> last.detected,
                  redacted |-> redactPHI(message, mode) ]
    /\ UNCHANGED <<policy, message, classification, response, chat, mcp_conversations,
                   db, calls, notifications>>

InitPhi ==
    /\ policy = SmsPolicy
    /\ message \in PhiCorpus
    /\ classification = NoResult
    /\ response = NoResponse
    /\ chat = NoChat
    /\ mcp_conversations = {}
    /\ db = EmptyDb
    /\ last = [op |-> "received"]
    /\ calls = <<>>
    /\ notifications = <<>>

NextPhi ==
    \/ DetectStep
    \/ RedactStep

SpecPhi == InitPhi /\ [][NextPhi]_vars

-----------------------------------------------------------------------------
(* Claims on PHI redaction *)

\* C22: for every text, the output of redactPHI(text, 'full_redact') has no
\* substring that matches any of the five PHI patterns: detectPHI applied to
\* the redacted text returns the empty list.
C22_FullRedactLeavesNoPHI ==
    (last.op = "redacted" /\ last.mode = "full_redact")
    => detectPHI(last.redacted) = <<>>

\* a text in which two kinds of PHI stood side by side was redacted
C22_Witness ==
    /\ last.op = "redacted" /\ last.mode = "full_redact"
    /\ Len(last.detected) = 2
    /\ last.redacted # message

\* the strings detectPHI reported as SSN, phone or email
maskableMatches(detected) ==
    UNION { Range(detected[n].matches) :
            n \in {x \in DOMAIN detected : detected[x].type \in {"ssn", "phone", "email"}} }

\* C23: for every text, redactPHI(text, 'mask_partial') masks every span that
\* detectPHI reports as an SSN, a phone number or an email address: no such
\* detected span is left standing in the output.
C23_MaskPartialMasksDetected ==
    (last.op = "redacted" /\ last.mode = "mask_partial")
    => \A m \in maskableMatches(last.detected) : ~includes(last.redacted, m)

-----------------------------------------------------------------------------
(* Claims on the SMS profile update and the pipeline around it *)

\* C24: the verification status returned to the caller of POST
\* /api/profile/sms-update is the status recomputed after that merge: it
\* equals the status stored for the profile when the call returns.
C24_ReturnedStatusIsStoredStatus ==
    last.op = "sms-update"
    => last.verificationStatus = db.user_profiles[last.profileId].verification_status

\* C25: when the guardrail check cannot be completed, the SMS pipeline treats
\* the message as action=process: the message is never blocked or
\* redirected, extraction runs, the profile merge is entered when the
\* fragment has a key, and the reply is the generated one, also for a
\* message with an emergency keyword or a strict-block phrase.
C25_GuardrailFailureProcesses ==
    (last.op = "sms" /\ last.guardrail = "failed")
    => /\ last.action \in {"processed", "error"}
       /\ last.extractionRan
       /\ last.extractedData = ExtractedFromCorpus[last.message]
       /\ last.action = "processed"
            => /\ last.merged = (DOMAIN last.extractedData # {})
               /\ last.reply = generateAIResponse(last.extractedData, last.merged,
                                                  last.completionPercentage)
       /\ last.action = "error" => DOMAIN last.extractedData # {}

\* a message with an emergency keyword was merged while the check was down
C25_Witness ==
    /\ last.op = "sms" /\ last.guardrail = "failed"
    /\ GuardrailReplies[last.message].action = "redirect"
    /\ includes(toLowerCase(last.message), "chest pain")
    /\ last.merged
    /\ profileKeyedBy(db, last.phone)

\* C26: createOrUpdateProfileFromSMS is all-or-nothing: when one of its
\* steps fails, no effect of the call remains in the store after the
\* ROLLBACK: no new user or profile, no changed field or count, no
\* interaction row.
C26_FailedMergeLeavesNoEffect ==
    [][(last'.op = "sms" /\ last'.action = "error")
        => /\ db'.users = db.users
           /\ db'.user_profiles = db.user_profiles
           /\ db'.sms_profile_interactions = db.sms_profile_interactions]_vars

\* the keys extractInformationFromSMS can put in a fragment
ExtractorKeys ==
    {"firstName", "lastName", "middleName", "zipCode", "phoneNumber", "medicaidId",
     "age", "streetAddress"}

\* C27: every key the extractor can put in a fragment is mapped by the
\* merge to a profile column, and every value extracted from a processed
\* message stands in that column of the profile after the merge.
C27_EveryExtractedValueStored ==
    (last.op = "sms" /\ last.merged)
    => /\ DOMAIN last.extractedData \subseteq ExtractorKeys
       /\ \A k \in DOMAIN last.extractedData :
            /\ k \in DOMAIN fieldMapping
            /\ db.user_profiles[last.profileId].data[fieldMapping[k]] = last.extractedData[k]

\* the end of a text
endsWith(s, t) == Len(t) <= Len(s) /\ SubSeq(s, Len(s) - Len(t) + 1, Len(s)) = t

\* C28: when a message was merged, completion is below 50 and a field is
\* missing, the reply asks for the first missing field in priority order
\* ("Could you please provide your <label>?") and is not the fallback
\* greeting.
C28_ReplyAsksForFirstMissingField ==
    ( /\ last.op = "sms" /\ last.action = "processed" /\ last.merged
      /\ last.completionPercentage < 50
      /\ getMissingProfileInfo(db, last.profileId) # <<>> )
    => /\ last.reply # FallbackGreeting
       /\ endsWith(last.reply,
                   "Could you please provide your "
                   \o toLowerCase(getMissingProfileInfo(db, last.profileId)[1].label)
                   \o "?")

-----------------------------------------------------------------------------
(* Claims on the verification status without validation records *)

\* the profile has no row in profile_field_validations
noValidationRecords(d, profileId) ==
    \A i \in 1..Len(d.profile_field_validations) :
        d.profile_field_validations[i].profile_id # profileId

\* C29: with no field-validation records the quality score is 50, so the
\* profile is never 'verified': its status is 'partial' exactly when its
\* completion percentage is at least 50 and 'unverified' otherwise, even at
\* 100% completion.  Stated of the metrics a PUT stores.
C29_NeverVerifiedWithoutValidations ==
    (last.op = "put" /\ noValidationRecords(db, last.profileId))
    => LET row == db.user_profiles[last.profileId] IN
       /\ row.data_quality_score = 50
       /\ row.verification_status # "verified"
       /\ row.verification_status =
            (IF completionPercentage(db, last.profileId) >= 50
             THEN "partial" ELSE "unverified")

\* a PUT left a profile without validation records at 100% and 'partial'
C29_Witness ==
    /\ last.op = "put" /\ noValidationRecords(db, last.profileId)
    /\ completionPercentage(db, last.profileId) = 100
    /\ db.user_profiles[last.profileId].verification_status = "partial"

-----------------------------------------------------------------------------
(* Notifications (routes/notifications.js): publish and accept on the       *)
(* in-memory array                                                          *)

\* notifications published in one behaviour
MaxNotifications == 3

\* `${Date.now()}`: the decimal text of the clock reading
idOf(t) == parseInt(<<"1", "2", "3", "4", "5">>[t])

\* the clock reading of a publish: the one of the publish before it (same
\* millisecond) or a later one
clockReadings(ns) ==
    IF ns = <<>> THEN {1} ELSE {ns[Len(ns)].createdAt, ns[Len(ns)].createdAt + 1}

\* agentId of an accept body: absent, a string, the empty string, null
AgentIds == {Undefined, "agent_1", "agent_2", "", NULL}

\* id of an accept body: absent, never published, or any published id
AcceptIds(ns) == {Undefined, "0"} \cup {ns[i].id : i \in 1..Len(ns)}

\* notifications.find(x => x.id === id): the index of the first, 0 for none
find(ns, id) ==
    IF \E i \in 1..Len(ns) : ns[i].id = id
    THEN Min({i \in 1..Len(ns) : ns[i].id = id})
    ELSE 0

\* the truthiness of claimedBy: null and the empty string are falsy
claimed(n) == n.claimedBy \notin {NULL, ""}

\* POST /publish with the defaults of the body
Publish ==
    /\ Len(notifications) < MaxNotifications
    /\ \E t \in clockReadings(notifications) :
        LET n == [ id |-> idOf(t), type |-> "task", title |-> "Notification",
                   audience |-> "admins", createdAt |-> t, claimedBy |-> NULL ]
        IN  /\ notifications' = Append(notifications, n)
            /\ last' = [op |-> "publish", status |-> 200, id |-> n.id]
    /\ UNCHANGED <<policy, message, classification, response, chat, mcp_conversations,
                   db, calls>>

\* POST /accept
Accept ==
    /\ \E id \in AcceptIds(notifications), agentIdOfBody \in AgentIds :
        LET agentId == IF agentIdOfBody = Undefined THEN "agent_placeholder"
                       ELSE agentIdOfBody
            i == find(notifications, id)
        IN  IF i = 0
            THEN /\ last' = [ op |-> "accept", status |-> 404, id |-> id,
                              agentId |-> agentId, error |-> "Not found" ]
                 /\ UNCHANGED notifications
            ELSE IF claimed(notifications[i])
            THEN /\ last' = [ op |-> "accept", status |-> 409, id |-> id,
                              agentId |-> agentId, error |-> "Already claimed" ]
                 /\ UNCHANGED notifications
            ELSE /\ notifications' = [notifications EXCEPT ![i].claimedBy = agentId]
                 /\ last' = [ op |-> "accept", status |-> 200, id |-> id,
                              agentId |-> agentId, error |-> NULL ]
    /\ UNCHANGED <<policy, message, classification, response, chat, mcp_conversations,
                   db, calls>>

InitNotify ==
    /\ policy = SmsPolicy
    /\ message = ""
    /\ classification = NoResult
    /\ response = NoResponse
    /\ chat = NoChat
    /\ mcp_conversations = {}
    /\ db = EmptyDb
    /\ last = [op |-> "none"]
    /\ calls = <<>>
    /\ notifications = <<>>

NextNotify ==
    \/ Publish
    \/ Accept

SpecNotify == InitNotify /\ [][NextNotify]_vars

====
